---- MODULE Spec2Model ----
(***************************************************************************)
(* Slide viewer with an annotation layer (lucasjellema/slide-viewer).      *)
(*                                                                         *)
(* The module models the AnnotationManager (store, element locator,        *)
(* persistence, note chips), the parts of SlideViewer, AdminController,    *)
(* ZipLoader, TooltipManager and main.js it depends on, and the browser    *)
(* objects they use (localStorage, the slide DOM, timers, mouse events).   *)
(*                                                                         *)
(* Specifications:                                                         *)
(*   SpecLocator   findElementByPath / the resolution of                   *)
(*                 applyAnnotationsForSlide as pure functions of a DOM and *)
(*                 a descriptor, drawn freely or made for an element       *)
(*   SpecRoundTrip persistAnnotations followed by loadPersistedAnnotations *)
(*   SpecStartup   opening the page: source selection over every kind of   *)
(*                 content of the zip, the local file and the cache        *)
(*   Spec          the application: startup, source selection, navigation, *)
(*                 edit mode, note creation, removal, download             *)
(*   SpecDrag      the note chips of a slide in edit mode: drag, click,    *)
(*                 reset timer, rich text editor, note creation            *)
(*   SpecQuota     Spec over a localStorage whose setItem throws           *)
(*   SpecShapes    SpecStartup over sources that may also hold an array    *)
(*   SpecStartupFair  SpecStartup with the fairness of its promises/timers *)
(*   SpecUpload    SpecStartup with edit mode and the upload of a zip      *)
(*   SpecNotes     the notes of a slide made in a session, with a wall     *)
(*                 clock that can be set back, edit mode and navigation    *)
(*   SpecReapply   SpecDrag with the notes applied again by the Edit Mode  *)
(*                 button and by navigation                                *)
(*   SpecTooltip   the pointer, the tooltips of the two managers, the      *)
(*                 indicators and the editors they open                    *)
(*   SpecTooltipFair  SpecTooltip with the fairness of the hide timeouts   *)
(*   SpecViewer    the controls of the SlideViewer: previous / next,       *)
(*                 fetches, the Edit Mode button, uploads of a zip whose   *)
(*                 slide numbers may have gaps                             *)
(***************************************************************************)
EXTENDS Integers, Sequences, FiniteSets, TLC

\* ------------------------------------------------------------------------
\* Bounds of the model
\* ------------------------------------------------------------------------

\* longest structural path drawn as an input of the locator
MaxPathLen == 2
\* longest record sequence of a slide drawn as an input of the round trip
MaxRtLen == 2
\* number of slides of the deck
NumSlides == 2
\* number of times the slide display is rebuilt in a session
MaxBuilds == 2
\* number of notes created in a session, and the last clock value
MaxCreates == 1
MaxClock == 2
\* number of presses on note chips, and of mouse moves within one press
MaxGestures == 2
MaxMoves == 2
\* most notes made in one session where two of them are compared
MaxNotes == 2
\* most hide timeouts of one tooltip pending at a time
MaxTimers == 1
\* number of times the slide display is rebuilt where the controls of the
\* viewer are followed, and most click listeners on the slide display
MaxLoads == 3
MaxListeners == 3

\* ------------------------------------------------------------------------
\* The slide documents
\* ------------------------------------------------------------------------

\* node numbers: the svg root, "no element" (null / undefined), and the
\* indicator groups the tooltip manager appends to the svg root
Root == 0
NoElement == 0 - 1
IndGroupBase == 100
IndCircleBase == 200

\* element ids: 0 is "no id" (empty string / null / undefined, all falsy)
NoId == 0
GhostId == 9
GenIdBase == 1000

\* An attribute set is a set of <<name, value>> pairs.
\* Slide 1:  <svg> <g> <rect id=shape-1 x=10 y=20/> <rect x=30 y=20/> </g>
\*                 <rect x=10 y=20/> </svg>
\* Slide 2:  <svg> <rect x=10 y=20/> <g> <circle id=c-2 cx=5/> </g> </svg>
\* the number of a document that holds a nested <svg>:
\*   <svg> <rect/> <svg> <rect/> </svg> </svg>
NestedDoc == 9

SlideDoc(d) ==
    IF d = 0 THEN <<>>
    ELSE IF d = NestedDoc
    THEN << [parent |-> 0, tag |-> "rect", id |-> NoId,
             attrs |-> {<<"x", "10">>, <<"y", "20">>}],
            [parent |-> 0, tag |-> "svg",  id |-> NoId, attrs |-> {}],
            [parent |-> 2, tag |-> "rect", id |-> NoId,
             attrs |-> {<<"x", "30">>, <<"y", "20">>}] >>
    ELSE IF d % 2 = 1
    THEN << [parent |-> 0, tag |-> "g",    id |-> NoId, attrs |-> {}],
            [parent |-> 1, tag |-> "rect", id |-> 1,
             attrs |-> {<<"x", "10">>, <<"y", "20">>}],
            [parent |-> 1, tag |-> "rect", id |-> NoId,
             attrs |-> {<<"x", "30">>, <<"y", "20">>}],
            [parent |-> 0, tag |-> "rect", id |-> NoId,
             attrs |-> {<<"x", "10">>, <<"y", "20">>}] >>
    ELSE << [parent |-> 0, tag |-> "rect", id |-> NoId,
             attrs |-> {<<"x", "10">>, <<"y", "20">>}],
            [parent |-> 0, tag |-> "g",    id |-> NoId, attrs |-> {}],
            [parent |-> 2, tag |-> "circle", id |-> 2,
             attrs |-> {<<"cx", "5">>}] >>

StaticNodes(d) == 1..Len(SlideDoc(d))

\* A live DOM: the slide document d, `ind` indicator groups appended to the
\* svg root (each <g class=annotation-indicator-group> holding one <circle>),
\* the ids and class lists the scripts have set on the elements.
\*   dom == [doc, ind, ids, removed, annotated]
IndGroups(dom) == {IndGroupBase + i : i \in 1..dom.ind}
IndCircles(dom) == {IndCircleBase + i : i \in 1..dom.ind}
DomNodes(dom) == StaticNodes(dom.doc) \cup IndGroups(dom) \cup IndCircles(dom)

FreshDom(d) ==
    [doc |-> d, ind |-> 0,
     ids |-> [n \in StaticNodes(d) |-> SlideDoc(d)[n].id],
     removed |-> {}, annotated |-> {}]

TagOf(dom, n) ==
    IF n \in StaticNodes(dom.doc) THEN SlideDoc(dom.doc)[n].tag
    ELSE IF n \in IndGroups(dom) THEN "g"
    ELSE IF n \in IndCircles(dom) THEN "circle"
    ELSE "svg"

ParentOf(dom, n) ==
    IF n \in StaticNodes(dom.doc) THEN SlideDoc(dom.doc)[n].parent
    ELSE IF n \in IndCircles(dom) THEN n - IndCircleBase + IndGroupBase
    ELSE Root

IdOf(dom, n) ==
    IF n \in StaticNodes(dom.doc) THEN dom.ids[n] ELSE NoId

\* the class attribute: the class list as the scripts built it
ClassOf(dom, n) ==
    IF n \in IndGroups(dom) THEN "annotation-indicator-group"
    ELSE IF n \in IndCircles(dom) THEN "annotation-indicator-svg"
    ELSE IF n \in dom.annotated /\ n \in dom.removed
         THEN "annotated-element removed"
    ELSE IF n \in dom.annotated THEN "annotated-element"
    ELSE IF n \in dom.removed THEN "removed"
    ELSE ""

\* the attributes of the allow-list the element carries
AttrsOf(dom, n) ==
    LET static == IF n \in StaticNodes(dom.doc) THEN SlideDoc(dom.doc)[n].attrs
                  ELSE IF n \in IndCircles(dom)
                       THEN {<<"r", "5">>, <<"cx", "0">>, <<"cy", "0">>}
                       ELSE {}
    IN  static \cup (IF ClassOf(dom, n) = "" THEN {}
                     ELSE {<<"class", ClassOf(dom, n)>>})

\* document order: static nodes in file order, then each indicator group
\* followed by its circle
DocOrder(dom) ==
    [i \in 1..(Len(SlideDoc(dom.doc)) + 2 * dom.ind) |->
        IF i <= Len(SlideDoc(dom.doc)) THEN i
        ELSE LET k == i - Len(SlideDoc(dom.doc))
             IN  IF k % 2 = 1 THEN IndGroupBase + (k + 1) \div 2
                 ELSE IndCircleBase + k \div 2]

RECURSIVE SelectNodes(_, _, _, _)
\* the nodes of order[i..] with parent p (p = -1: any) and tag t, in order
SelectNodes(dom, order, p, t) ==
    IF order = <<>> THEN <<>>
    ELSE LET n == Head(order)
             rest == SelectNodes(dom, Tail(order), p, t)
         IN  IF (p = NoElement \/ ParentOf(dom, n) = p) /\ TagOf(dom, n) = t
             THEN <<n>> \o rest ELSE rest

\* Array.from(current.children).filter(c => c.tagName === tag)
ChildrenWithTag(dom, p, t) == SelectNodes(dom, DocOrder(dom), p, t)

\* svgRoot.querySelectorAll(tagName)
QuerySelectorAll(dom, t) == SelectNodes(dom, DocOrder(dom), NoElement, t)

\* svgElement.getElementById(id)
GetElementById(dom, id) ==
    LET hits == {n \in StaticNodes(dom.doc) : dom.ids[n] = id}
    IN  IF id = NoId \/ hits = {} THEN NoElement
        ELSE CHOOSE n \in hits : \A m \in hits : n <= m

\* ------------------------------------------------------------------------
\* Element descriptors
\* ------------------------------------------------------------------------

\* A path is the string "/tag[i]/tag[i]..." or null.  It is modelled by the
\* parts split('/') yields; a part that the pattern tag[index] does not
\* match has ok = FALSE.
NullPath == [null |-> TRUE, parts |-> <<>>]
PathOf(parts) == [null |-> FALSE, parts |-> parts]
Part(t, i) == [ok |-> TRUE, tag |-> t, index |-> i]
JunkPart == [ok |-> FALSE, tag |-> "junk", index |-> 0]
\* a non-empty string is truthy
PathTruthy(path) == ~path.null /\ path.parts # <<>>

NullAttrs == [null |-> TRUE, kv |-> {}]
AttrsObj(kv) == [null |-> FALSE, kv |-> kv]

NullTag == "null"

\* number of preceding siblings of n with n's tag
SiblingIndex(dom, n) ==
    LET sibs == ChildrenWithTag(dom, ParentOf(dom, n), TagOf(dom, n))
    IN  (CHOOSE i \in 1..Len(sibs) : sibs[i] = n) - 1

RECURSIVE NearestSvg(_, _)
\* the nearest <svg> at or above n
NearestSvg(dom, n) ==
    IF n = Root \/ TagOf(dom, n) = "svg" THEN n
    ELSE NearestSvg(dom, ParentOf(dom, n))

\* element.ownerSVGElement: the nearest <svg> ancestor
ownerSVGElement(dom, n) == NearestSvg(dom, ParentOf(dom, n))

RECURSIVE PathParts(_, _, _)
\* the while (current && current !== root) loop of getElementPath
PathParts(dom, n, root) ==
    IF n = Root \/ n = root THEN <<>>
    ELSE PathParts(dom, ParentOf(dom, n), root)
            \o << Part(TagOf(dom, n), SiblingIndex(dom, n)) >>

\* getElementPath(element) for an element attached to the slide's svg
getElementPath(dom, n) ==
    PathOf(PathParts(dom, n, ownerSVGElement(dom, n)))

\* getElementAttributes(element)
getElementAttributes(dom, n) == AttrsObj(AttrsOf(dom, n))

RECURSIVE PathWalk(_, _, _)
\* the for loop of findElementByPath
PathWalk(dom, parts, current) ==
    IF parts = <<>> THEN current
    ELSE LET part == Head(parts) IN
         IF ~part.ok THEN PathWalk(dom, Tail(parts), current)
         ELSE LET children == ChildrenWithTag(dom, current, part.tag) IN
              IF Len(children) > part.index
              THEN PathWalk(dom, Tail(parts), children[part.index + 1])
              ELSE NoElement

RECURSIVE FirstMatch(_, _, _)
FirstMatch(dom, candidates, kv) ==
    IF candidates = <<>> THEN NoElement
    ELSE IF \A a \in kv : a \in AttrsOf(dom, Head(candidates))
         THEN Head(candidates)
         ELSE FirstMatch(dom, Tail(candidates), kv)

\* the second try block of findElementByPath: by tag and attributes.
\* Object.entries(null) throws inside the find callback, which the catch
\* turns into null; with no candidates the callback never runs.
AttributeSearch(dom, tagName, attributes) ==
    LET candidates == QuerySelectorAll(dom, tagName) IN
    IF attributes.null THEN NoElement
    ELSE FirstMatch(dom, candidates, attributes.kv)

\* findElementByPath(svgRoot, path, tagName, attributes): path.split throws
\* for a null path, and only then is the attribute search reached
findElementByPath(dom, path, tagName, attributes) ==
    IF path.null THEN AttributeSearch(dom, tagName, attributes)
    ELSE PathWalk(dom, path.parts, Root)

\* a variant that prefers the structural path to the id
ResolveTargetPathFirst(dom, rec) ==
    IF PathTruthy(rec.elementPath)
       /\ findElementByPath(dom, rec.elementPath, rec.elementTag,
                            rec.elementAttributes) # NoElement
    THEN findElementByPath(dom, rec.elementPath, rec.elementTag,
                           rec.elementAttributes)
    ELSE GetElementById(dom, rec.elementId)

\* the element applyAnnotationsForSlide finds for a record
ResolveTarget(dom, rec) ==
    IF rec.type = "removed"
    THEN IF rec.elementId # NoId
         THEN GetElementById(dom, rec.elementId)
         ELSE IF PathTruthy(rec.elementPath) /\ rec.elementTag # NullTag
              THEN findElementByPath(dom, rec.elementPath, rec.elementTag,
                                     rec.elementAttributes)
              ELSE NoElement
    ELSE LET byId == IF rec.elementId # NoId
                     THEN GetElementById(dom, rec.elementId) ELSE NoElement
         IN  IF byId = NoElement /\ PathTruthy(rec.elementPath)
             THEN findElementByPath(dom, rec.elementPath, rec.elementTag,
                                    rec.elementAttributes)
             ELSE byId

\* ------------------------------------------------------------------------
\* Records, collections and their JSON text
\* ------------------------------------------------------------------------

Slides == 1..NumSlides

\* CSS lengths: "<n>px" and "<n>%"
\* half: the length is n + 0.5, as in "85.5px"
Px(n) == [unit |-> "px", n |-> n, half |-> FALSE]
PxHalf(n) == [unit |-> "px", n |-> n, half |-> TRUE]
Pct(n) == [unit |-> "%", n |-> n, half |-> FALSE]

\* the object createAnnotation builds
NoteRecord(text, path, tag, id, attrs, pos, created) ==
    [type |-> "annotation", text |-> text, elementPath |-> path,
     elementTag |-> tag, elementId |-> id, elementAttributes |-> attrs,
     position |-> pos, created |-> created]

\* the object saveRemovedElements builds
RemovalRecord(tag, path, attrs, id) ==
    [type |-> "removed", elementTag |-> tag, elementPath |-> path,
     elementAttributes |-> attrs, elementId |-> id]

\* An annotation collection is a function from slide numbers (the keys
\* "slide-<N>") to sequences of records; {} is the empty function.
EmptyCollection == [k \in {} |-> <<>>]

\* the sequence of slide k in a collection, empty if the slide has no key
SeqOf(coll, k) == IF k \in DOMAIN coll THEN coll[k] ELSE <<>>

\* for (key in annotations) if (annotations[key].length > 0) ...
HasAnnotations(coll) == \E k \in DOMAIN coll : Len(coll[k]) > 0

\* A stored text is absent (null), not JSON, the JSON text "null", or the
\* JSON text of an object: its "slide-<N>": [...] members in the order
\* they are written.
AbsentText == [t |-> "absent", members |-> <<>>]
GarbageText == [t |-> "garbage", members |-> <<>>]
JsonNullText == [t |-> "null", members |-> <<>>]
\* the key is not there and the quota of the origin is used up: getItem
\* returns null, setItem throws
FullText == [t |-> "full", members |-> <<>>]
\* the JSON text [] : it parses, to an array without elements
ArrayText == [t |-> "array", members |-> <<>>]

RECURSIVE MembersOf(_, _)
MembersOf(coll, keys) ==
    IF keys = {} THEN <<>>
    ELSE LET k == CHOOSE x \in keys : \A y \in keys : x <= y
         IN  << [key |-> k, value |-> coll[k]] >>
                \o MembersOf(coll, keys \ {k})

\* a variant that leaves out the slides without records
JSONstringifyNonEmpty(coll) ==
    [t |-> "json",
     members |-> MembersOf(coll, {k \in DOMAIN coll : Len(coll[k]) > 0})]

\* JSON.stringify(this.annotations, null, 2)
JSONstringify(coll) ==
    [t |-> "json", members |-> MembersOf(coll, DOMAIN coll)]

\* JSON.parse(text): ok = FALSE when it throws
JSONparse(text) ==
    IF text.t = "json"
    THEN [ok |-> TRUE, kind |-> "object",
          v |-> [k \in {text.members[i].key : i \in DOMAIN text.members} |->
                    LET i == CHOOSE j \in DOMAIN text.members :
                                /\ text.members[j].key = k
                                /\ \A h \in DOMAIN text.members :
                                      text.members[h].key = k => h <= j
                    IN  text.members[i].value]]
    ELSE IF text.t = "null"
    THEN [ok |-> TRUE, kind |-> "null", v |-> EmptyCollection]
    \* an array without elements has no property named after a slide
    ELSE IF text.t = "array"
    THEN [ok |-> TRUE, kind |-> "array", v |-> EmptyCollection]
    ELSE [ok |-> FALSE, kind |-> "none", v |-> EmptyCollection]

\* a persistAnnotations() that writes only while the key is absent
persistAnnotationsOnce(coll, storage) ==
    IF ~HasAnnotations(coll) \/ storage.t # "absent" THEN storage
    ELSE JSONstringify(coll)

\* persistAnnotations(): the value of localStorage['slideViewerAnnotations']
\* afterwards
persistAnnotations(coll, storage) ==
    IF ~HasAnnotations(coll) THEN storage
    \* setItem throws, the catch logs the error
    ELSE IF storage = FullText THEN storage
    ELSE JSONstringify(coll)

\* loadPersistedAnnotations(): the manager's collection afterwards and the
\* value returned
loadPersistedAnnotations(storage) ==
    LET parsed == JSONparse(storage) IN
    \* parsed && typeof parsed === 'object'
    IF storage.t # "absent" /\ parsed.ok /\ parsed.kind \in {"object", "array"}
    THEN [annotations |-> parsed.v, loaded |-> TRUE]
    ELSE [annotations |-> EmptyCollection, loaded |-> FALSE]

\* loadAnnotationsFromFile() once the fetch of slides/slide-annotations.json
\* has answered with the text `file` (absent: not found): the manager's
\* collection afterwards and the value the promise resolves to
loadAnnotationsFromFile(coll, file) ==
    \* data && typeof data === 'object'
    IF /\ file.t # "absent"
       /\ JSONparse(file).ok
       /\ JSONparse(file).kind \in {"object", "array"}
    THEN [annotations |-> JSONparse(file).v, loaded |-> TRUE]
    ELSE [annotations |-> coll, loaded |-> FALSE]

\* an initial load that asks the durable cache before the file
InitialLoadCacheFirst(coll, file, storage) ==
    IF loadPersistedAnnotations(storage).loaded
    THEN loadPersistedAnnotations(storage).annotations
    ELSE loadAnnotationsFromFile(coll, file).annotations

\* loadAnnotationsFromFile().then(loaded => { if (!loaded)
\* this.loadPersistedAnnotations(); }): the manager's collection afterwards
InitialLoad(coll, file, storage) ==
    IF loadAnnotationsFromFile(coll, file).loaded
    THEN loadAnnotationsFromFile(coll, file).annotations
    ELSE loadPersistedAnnotations(storage).annotations

\* ------------------------------------------------------------------------
\* The store: operations of AnnotationManager on a collection and the DOM
\* ------------------------------------------------------------------------

\* the slide display is ContainerW x ContainerH pixels
ContainerW == 100
ContainerH == 60
EdgeMargin == 10

Max(a, b) == IF a > b THEN a ELSE b
Min(a, b) == IF a < b THEN a ELSE b

\* centre of the bounding rectangle of an element, relative to the display
CentreX(dom, n) == IF n \in StaticNodes(dom.doc) THEN 40 * n - 35 ELSE 50
CentreY(dom, n) == IF n \in StaticNodes(dom.doc) THEN 20 * dom.doc ELSE 70
\* rect.width / 2 is not rounded: the third element is of odd width and its
\* centre lies at CentreX + 0.5
CentreXHalf(dom, n) == n \in StaticNodes(dom.doc) /\ n = 3

\* Math.max(lo, Math.min(hi, c)) + 'px' for the centre c, or c + 0.5
ClampPx(lo, hi, c, half) ==
    IF c < lo THEN Px(lo)
    ELSE IF c >= hi THEN Px(hi)
    ELSE IF half THEN PxHalf(c) ELSE Px(c)

\* calculatePosition(targetElement)
calculatePosition(dom, n) ==
    IF n = NoElement THEN [left |-> Pct(50), top |-> Pct(50)]
    ELSE [left |-> ClampPx(EdgeMargin, ContainerW - EdgeMargin,
                           CentreX(dom, n), CentreXHalf(dom, n)),
          top |-> Px(Max(EdgeMargin, Min(ContainerH - EdgeMargin, CentreY(dom, n))))]

\* `annotated-element-<random>`: an id no element ever had before; the
\* build number of the DOM and the node make it unique
GenId(build, n) == GenIdBase + 10 * build + n

\* TooltipManager.registerAnnotatedElement(element, ...): gives the element an
\* id if it has none, adds the class, appends an indicator group to the svg
registerAnnotatedElement(dom, n, build) ==
    IF n \in StaticNodes(dom.doc)
    THEN [dom EXCEPT !.ids[n] = IF @ = NoId THEN GenId(build, n) ELSE @,
                     !.annotated = @ \cup {n},
                     !.ind = @ + 1]
    ELSE IF n = Root THEN dom
    ELSE [dom EXCEPT !.ind = @ + 1]

\* collection with slide k set to the sequence q
WithSlide(coll, k, q) ==
    [j \in DOMAIN coll \cup {k} |-> IF j = k THEN q ELSE coll[j]]

\* texts with an HTML tag in them (text.includes('<') && text.includes('>'))
HasMarkup(text) == text \in {"<p>edited</p>"}
\* what innerHTML reads after textContent was set to the text: & < > escaped
EscapeHtml(text) ==
    IF text = "R&D" THEN "R&amp;D"
    ELSE IF text = "R&amp;D" THEN "R&amp;amp;D"
    ELSE text
\* innerHTML of .annotation-text as createVisualAnnotation leaves it
RenderText(text) == IF HasMarkup(text) THEN text ELSE EscapeHtml(text)

\* createVisualAnnotation(annotationData): the note chip; isDragging is the
\* property makeElementDraggable puts on the element
ChipFor(rec) ==
    [id |-> rec.created, left |-> rec.position.left, top |-> rec.position.top,
     text |-> RenderText(rec.text), isDragging |-> FALSE]

\* offsetLeft / offsetTop of a chip, an integer: its pixel style rounded,
\* or half the display for the 50% default
OffsetLeft(chip) ==
    IF chip.left.unit = "px"
    THEN (IF chip.left.half THEN chip.left.n + 1 ELSE chip.left.n)
    ELSE ContainerW \div 2
OffsetTop(chip) ==
    IF chip.top.unit = "px"
    THEN (IF chip.top.half THEN chip.top.n + 1 ELSE chip.top.n)
    ELSE ContainerH \div 2

\* style.left if it ends with 'px', else offsetLeft + 'px'
StyleOrOffset(len, offset) == IF len.unit = "px" THEN len ELSE Px(offset)

RECURSIVE IndexOfCreated(_, _, _)
\* index of the first record of q from i on with a.created === id, 0 if none
IndexOfCreated(q, id, i) ==
    IF i > Len(q) THEN 0
    ELSE IF q[i].type = "annotation" /\ q[i].created = id THEN i
    ELSE IndexOfCreated(q, id, i + 1)

\* updateAnnotationPosition that falls back on the first record of the slide
\* when no record has the chip's created value
updateAnnotationPositionFirst(coll, cur, chip) ==
    IF cur \notin DOMAIN coll THEN coll
    ELSE LET i == IndexOfCreated(coll[cur], chip.id, 1) IN
         IF i = 0 /\ coll[cur] = <<>> THEN coll
         ELSE [coll EXCEPT ![cur][IF i = 0 THEN 1 ELSE i].position =
                  [left |-> StyleOrOffset(chip.left, OffsetLeft(chip)),
                   top |-> StyleOrOffset(chip.top, OffsetTop(chip))]]

\* updateAnnotationPosition(annotationElement) on the slide that is current
updateAnnotationPosition(coll, cur, chip) ==
    IF cur \notin DOMAIN coll THEN coll
    ELSE LET i == IndexOfCreated(coll[cur], chip.id, 1) IN
         IF i = 0 THEN coll
         ELSE [coll EXCEPT ![cur][i].position =
                  [left |-> StyleOrOffset(chip.left, OffsetLeft(chip)),
                   top |-> StyleOrOffset(chip.top, OffsetTop(chip))]]

RECURSIVE saveAllAnnotationPositions(_, _, _)
\* saveAllAnnotationPositions(): every chip on display, in order
saveAllAnnotationPositions(coll, cur, chipSeq) ==
    IF chipSeq = <<>> THEN coll
    ELSE saveAllAnnotationPositions(
            updateAnnotationPosition(coll, cur, Head(chipSeq)), cur,
            Tail(chipSeq))

\* The forEach of applyAnnotationsForSlide works on the state
\*   st == [coll, dom, storage, chips]
\* a Removal whose element was found: the class removed is added
ApplyRemoval(st, target) ==
    IF target \in StaticNodes(st.dom.doc)
    THEN [st EXCEPT !.dom.removed = @ \cup {target}]
    ELSE st

\* the end of the Note branch: the chip, in edit mode
NoteShown(chipSeq, rec, edit) ==
    IF edit THEN Append(chipSeq, ChipFor(rec)) ELSE chipSeq

\* the Note branch after registration: coll1 holds the id the element has
\* now, which is persisted if it is new; then the position is recalculated
NoteRegistered(st, slide, i, edit, target, dom1, coll1, coll2) ==
    [coll |-> coll2,
     dom |-> dom1,
     storage |-> IF coll1 # st.coll THEN persistAnnotations(coll1, st.storage)
                 ELSE st.storage,
     chips |-> NoteShown(st.chips, coll2[slide][i], edit)]

\* the Note branch for a found element, dom1 being the svg after
\* tooltipManager.registerAnnotatedElement
NoteFound(st, slide, i, edit, target, dom1) ==
    NoteRegistered(st, slide, i, edit, target, dom1,
        IF st.coll[slide][i].elementId = NoId /\ IdOf(dom1, target) # NoId
        THEN [st.coll EXCEPT ![slide][i].elementId = IdOf(dom1, target)]
        ELSE st.coll,
        IF st.coll[slide][i].elementId = NoId /\ IdOf(dom1, target) # NoId
        THEN [st.coll EXCEPT ![slide][i].elementId = IdOf(dom1, target),
                             ![slide][i].position = calculatePosition(dom1, target)]
        ELSE [st.coll EXCEPT ![slide][i].position = calculatePosition(dom1, target)])

\* a Note branch that puts an indicator on the svg for a Note whose element
\* was not found
ApplyNoteIndicatesOrphan(st, slide, i, edit, target, build) ==
    IF target = NoElement
    THEN [st EXCEPT !.dom.ind = @ + 1,
                    !.chips = NoteShown(st.chips, st.coll[slide][i], edit)]
    ELSE NoteFound(st, slide, i, edit, target,
                   registerAnnotatedElement(st.dom, target, build))

\* the Note branch
ApplyNote(st, slide, i, edit, target, build) ==
    IF target = NoElement
    THEN [st EXCEPT !.chips = NoteShown(st.chips, st.coll[slide][i], edit)]
    ELSE NoteFound(st, slide, i, edit, target,
                   registerAnnotatedElement(st.dom, target, build))

\* one iteration of the forEach
ApplyRecord(st, slide, i, edit, build) ==
    IF st.coll[slide][i].type = "removed"
    THEN ApplyRemoval(st, ResolveTarget(st.dom, st.coll[slide][i]))
    ELSE IF st.coll[slide][i].type = "annotation"
    THEN ApplyNote(st, slide, i, edit,
                   ResolveTarget(st.dom, st.coll[slide][i]), build)
    ELSE st

RECURSIVE ApplyLoop(_, _, _, _, _)
ApplyLoop(st, slide, i, edit, build) ==
    IF i > Len(st.coll[slide]) THEN st
    ELSE ApplyLoop(ApplyRecord(st, slide, i, edit, build), slide, i + 1,
                   edit, build)

\* applyAnnotationsForSlide(slideIndex) on st == [coll, dom, storage, chips];
\* hasSvg: the slide display holds an <svg>
applyAnnotationsForSlide(st, slide, hasSvg, edit, build) ==
    IF slide \notin DOMAIN st.coll THEN st
    ELSE IF ~hasSvg THEN st
    ELSE ApplyLoop([st EXCEPT !.chips = <<>>,
                              !.dom.annotated = {},
                              !.dom.ind = 0],
                   slide, 1, edit, build)

\* createAnnotation that starts the slide's sequence afresh with the new
\* record
createAnnotationReplaces(st, text, n, attached, eldom, elbuild, cur, now, edit) ==
    LET id == IF IdOf(eldom, n) # NoId THEN IdOf(eldom, n)
              ELSE GenId(elbuild, n)
        rec == NoteRecord(text, getElementPath(eldom, n), TagOf(eldom, n), id,
                          getElementAttributes(eldom, n),
                          IF attached THEN calculatePosition(st.dom, n)
                          ELSE [left |-> Px(EdgeMargin), top |-> Px(EdgeMargin)],
                          now)
        coll1 == WithSlide(st.coll, cur, <<rec>>)
    IN  [coll |-> coll1,
         dom |-> IF attached THEN registerAnnotatedElement(st.dom, n, elbuild)
                 ELSE st.dom,
         storage |-> persistAnnotations(coll1, st.storage),
         chips |-> IF edit THEN Append(st.chips, ChipFor(rec)) ELSE st.chips]

\* createAnnotation(text, targetElement) with a non-empty text, for an
\* element of the document on display (attached) or of an earlier one the
\* display no longer holds; eldom is the document the element lives in and
\* elbuild the build that document came from
createAnnotation(st, text, n, attached, eldom, elbuild, cur, now, edit) ==
    LET id == IF IdOf(eldom, n) # NoId THEN IdOf(eldom, n)
              ELSE GenId(elbuild, n)
        rec == NoteRecord(text, getElementPath(eldom, n), TagOf(eldom, n), id,
                          getElementAttributes(eldom, n),
                          IF attached THEN calculatePosition(st.dom, n)
                          ELSE [left |-> Px(EdgeMargin), top |-> Px(EdgeMargin)],
                          now)
        old == IF cur \in DOMAIN st.coll THEN st.coll[cur] ELSE <<>>
        coll1 == WithSlide(st.coll, cur, Append(old, rec))
    IN  [coll |-> coll1,
         dom |-> IF attached THEN registerAnnotatedElement(st.dom, n, elbuild)
                 ELSE st.dom,
         storage |-> persistAnnotations(coll1, st.storage),
         chips |-> IF edit THEN Append(st.chips, ChipFor(rec)) ELSE st.chips]

\* the elements of the svg with class removed, in document order
RECURSIVE RemovedElements(_, _)
RemovedElements(dom, order) ==
    IF order = <<>> THEN <<>>
    ELSE IF Head(order) \in dom.removed
         THEN <<Head(order)>> \o RemovedElements(dom, Tail(order))
         ELSE RemovedElements(dom, Tail(order))

\* the alreadySaved test of saveRemovedElements
AlreadySaved(q, dom, n) ==
    \E i \in 1..Len(q) :
        /\ q[i].type = "removed"
        /\ \/ IdOf(dom, n) # NoId /\ q[i].elementId = IdOf(dom, n)
           \/ /\ PathTruthy(getElementPath(dom, n))
              /\ q[i].elementPath = getElementPath(dom, n)

\* a forEach that appends a Removal for every removed element it meets
RECURSIVE RemovedLoopAlways(_, _, _)
RemovedLoopAlways(q, dom, nodes) ==
    IF nodes = <<>> THEN q
    ELSE RemovedLoopAlways(
            Append(q, RemovalRecord(TagOf(dom, Head(nodes)),
                                    getElementPath(dom, Head(nodes)),
                                    getElementAttributes(dom, Head(nodes)),
                                    IdOf(dom, Head(nodes)))),
            dom, Tail(nodes))

\* removedElements.forEach(...) of saveRemovedElements
RECURSIVE RemovedLoop(_, _, _)
RemovedLoop(q, dom, nodes) ==
    IF nodes = <<>> THEN q
    ELSE RemovedLoop(
            IF AlreadySaved(q, dom, Head(nodes)) THEN q
            ELSE Append(q, RemovalRecord(TagOf(dom, Head(nodes)),
                                         getElementPath(dom, Head(nodes)),
                                         getElementAttributes(dom, Head(nodes)),
                                         IdOf(dom, Head(nodes)))),
            dom, Tail(nodes))

\* saveRemovedElements(slideIndex)
saveRemovedElements(st, cur, hasSvg) ==
    LET old == IF cur \in DOMAIN st.coll THEN st.coll[cur] ELSE <<>>
        coll1 == WithSlide(st.coll, cur,
                    RemovedLoop(old, st.dom,
                        RemovedElements(st.dom, DocOrder(st.dom))))
    IN  IF ~hasSvg THEN [st EXCEPT !.coll = WithSlide(st.coll, cur, old)]
        ELSE [st EXCEPT !.coll = coll1,
                        !.storage = persistAnnotations(coll1, st.storage)]

\* AdminController.downloadAnnotations() up to the download itself:
\* saveRemovedElements, then getAllAnnotations, which calls it again
downloadAnnotations(st, cur, hasSvg) ==
    saveRemovedElements(saveRemovedElements(st, cur, hasSvg), cur, hasSvg)

\* toggleEditMode() entering edit mode
enterEditMode(st, cur, hasSvg, build) ==
    applyAnnotationsForSlide(st, cur, hasSvg, TRUE, build)

\* toggleEditMode() leaving edit mode
exitEditMode(st, cur, hasSvg, build) ==
    LET saved == saveAllAnnotationPositions(st.coll, cur, st.chips)
    IN  applyAnnotationsForSlide(
            [coll |-> saved,
             dom |-> [st.dom EXCEPT !.removed = {}],
             storage |-> persistAnnotations(saved, st.storage),
             chips |-> <<>>],
            cur, hasSvg, FALSE, build)

\* ------------------------------------------------------------------------
\* State
\* ------------------------------------------------------------------------

VARIABLES
    loc,        \* SpecLocator: a DOM, a record, and what resolution returned
    rt,         \* SpecRoundTrip: a manager's collection, the durable cache,
                \* and the collection of the fresh manager that reads it
    env,        \* what the page is opened with: the slidesZipUrl parameter,
                \* the zip behind it, the local slides/slide-annotations.json
    phase,      \* "loading", "error" (zip failed), "ready" (initializeApp ran)
    localStorage,       \* the text under the key 'slideViewerAnnotations'
    zipLoader,          \* the ZipLoader handed to initializeApp
    annotations,        \* this.annotations of each AnnotationManager
    fileLoad,           \* state of each manager's loadAnnotationsFromFile()
    currentSlideIndex,  \* SlideViewer.currentSlideIndex
    pendingLoads,       \* slide numbers whose fetch is in flight
    requested,          \* slide number of the latest loadSlide call, 0 if none
    nav,                \* the SlideViewer's slide count and buttons, the zip's
                        \* slide numbers, the click listeners on the display
    tips,       \* the pointer, the tooltip of each manager and its hide timers,
                \* the elements and the editor of the manager main.js replaced
    display,            \* what the slide display holds
    dom,                \* the <svg> on display and what the scripts did to it
    build,              \* how many times the display was rebuilt
    chips,              \* the .annotation elements on display, in order
    isEditMode,         \* AdminController.isEditMode (the .edit-mode class)
    clock,              \* Date.now()
    editor,             \* the rich text editor modal and its callback
    creates,            \* notes created in this session
    drag                \* the mouse gesture on a note chip and its timers

appVars == << drag, env, phase, localStorage, zipLoader, annotations, fileLoad,
              currentSlideIndex, pendingLoads, requested, nav, tips, display, dom, build, chips,
              isEditMode, clock, editor, creates >>

vars == << loc, rt, appVars >>

\* the two AnnotationManager instances initializeApp constructs: the one the
\* AdminController constructor makes, and the one main.js replaces it with
Mgrs == {"ctor", "main"}

NoDom == FreshDom(0)

\* the controls before any slide was loaded: the local slides folder holds
\* NumSlides slides, no zip, both buttons enabled, no click listener
NavIdle ==
    [totalSlides |-> NumSlides, slides |-> {}, prevDisabled |-> FALSE,
     nextDisabled |-> FALSE, listeners |-> 0]
NoEditor == [open |-> FALSE, target |-> NoElement, cb |-> "none", build |-> 0,
             tdom |-> NoDom, content |-> "", chip |-> 0]

\* Each AnnotationManager owns a TooltipManager with one tooltip element in
\* the document body. tips holds
\*   el       the element the pointer is over, NoElement if none
\*   tipOver  the manager whose tooltip the pointer is over, "none" if none
\*   visible  the tooltips that carry the class visible
\*   timers   the hide timeouts of handleMouseLeave still pending
\*   reg      the elements registered with the TooltipManager of the manager
\*            that main.js replaced, whose document listener stays
\*   ed       the editor of that manager
NoCtorEditor == [open |-> FALSE, target |-> NoElement, build |-> 0,
                 tdom |-> NoDom]
TipsIdle ==
    [el |-> NoElement, tipOver |-> "none",
     visible |-> [m \in Mgrs |-> FALSE], timers |-> [m \in Mgrs |-> 0],
     reg |-> {}, ed |-> NoCtorEditor]

\* slideDisplay.innerHTML is replaced: the elements, and the listeners on
\* them, are gone; no mouseleave is sent for them
TipsAfterRebuild(t) == [t EXCEPT !.reg = {}, !.el = NoElement]

\* no chip is pressed, no reset timer is pending
DragIdle ==
    [pressed |-> 0, isDragging |-> <<>>, timers |-> <<>>, clickDue |-> 0,
     gestures |-> 0, moves |-> 0, origin |-> <<0, 0>>, moved |-> <<0, 0>>,
     log |-> <<>>]
NoZipLoader == [present |-> FALSE, annKind |-> "null",
                annotations |-> EmptyCollection]

LocIdle ==
    [dom |-> FreshDom(1),
     rec |-> [type |-> "annotation", elementId |-> NoId,
              elementPath |-> NullPath, elementTag |-> NullTag,
              elementAttributes |-> NullAttrs],
     described |-> NoElement,
     found |-> NoElement, target |-> NoElement, done |-> {}]

RtIdle ==
    [mem |-> EmptyCollection, storage |-> AbsentText,
     fresh |-> EmptyCollection, step |-> "start"]

AppIdle ==
    /\ drag = DragIdle
    /\ env = [url |-> FALSE, zipOk |-> FALSE, zipAnn |-> AbsentText,
              file |-> AbsentText]
    /\ phase = "ready"
    /\ localStorage = AbsentText
    /\ zipLoader = NoZipLoader
    /\ annotations = [m \in Mgrs |-> EmptyCollection]
    /\ fileLoad = [m \in Mgrs |-> "none"]
    /\ currentSlideIndex = 1
    /\ pendingLoads = {}
    /\ requested = 0
    /\ nav = NavIdle
    /\ tips = TipsIdle
    /\ display = "blank"
    /\ dom = NoDom
    /\ build = 0
    /\ chips = <<>>
    /\ isEditMode = FALSE
    /\ clock = 0
    /\ editor = NoEditor
    /\ creates = 0

\* ------------------------------------------------------------------------
\* Spec: the application
\* ------------------------------------------------------------------------

\* sample contents of the three sources; the created values tell them apart
ZipNote ==
    NoteRecord("zip", PathOf(<<Part("g", 0), Part("rect", 0)>>), "rect", 1,
               AttrsObj({<<"x", "10">>, <<"y", "20">>}),
               [left |-> Px(45), top |-> Px(20)], 301)
FileNote ==
    NoteRecord("file", PathOf(<<Part("rect", 0)>>), "rect", NoId,
               AttrsObj({<<"x", "10">>, <<"y", "20">>}),
               [left |-> Px(90), top |-> Px(20)], 101)
CacheNote ==
    NoteRecord("cache", NullPath, NullTag, NoId, NullAttrs,
               [left |-> Pct(50), top |-> Pct(50)], 201)
CacheRemoval ==
    RemovalRecord("rect", PathOf(<<Part("rect", 0)>>),
                  AttrsObj({<<"x", "10">>, <<"y", "20">>}), NoId)

ZipColl == [k \in {1} |-> <<ZipNote>>]
FileColl == [k \in {1} |-> <<FileNote>>]
\* a Note whose element is gone: its id names no element and its path
\* indexes past the children
OrphanNote ==
    NoteRecord("cache", PathOf(<<Part("rect", 5)>>), "rect", GhostId,
               AttrsObj({<<"x", "10">>, <<"y", "20">>}),
               [left |-> Px(30), top |-> Px(30)], 202)

CacheColl ==
    [k \in {1, 2} |-> IF k = 1 THEN <<CacheNote>>
                      ELSE <<CacheRemoval, OrphanNote>>]

\* what a source can hold: nothing, text that does not parse, the text
\* "null", or the JSON text of a collection
SourceTexts(coll) == {AbsentText, GarbageText, JsonNullText, JSONstringify(coll)}
\* the two ends of that range
PlainTexts(coll) == {AbsentText, JSONstringify(coll)}

\* the page is opened without slidesZipUrl, with one whose zip loads, or with
\* one whose zip fails; a page opened with a zip is served next to a
\* well-formed slides/slide-annotations.json
EnvsOver(zipTexts, fileTexts) ==
    {e \in [url : BOOLEAN, zipOk : BOOLEAN, zipAnn : zipTexts, file : fileTexts] :
        /\ e.zipOk => e.url
        /\ ~e.zipOk => e.zipAnn = AbsentText
        /\ e.url => e.file = JSONstringify(FileColl)}

\* the state the page starts in, before the DOMContentLoaded handler decides
PageOpened(envs, cacheTexts) ==
    /\ loc = LocIdle
    /\ rt = RtIdle
    /\ drag = DragIdle
    /\ env \in envs
    /\ phase = "loading"
    /\ localStorage \in cacheTexts
    /\ zipLoader = NoZipLoader
    /\ annotations = [m \in Mgrs |-> EmptyCollection]
    /\ fileLoad = [m \in Mgrs |-> "none"]
    /\ currentSlideIndex = 1
    /\ pendingLoads = {}
    /\ requested = 0
    /\ nav = NavIdle
    /\ tips = TipsIdle
    /\ display = IF env.url THEN "loading" ELSE "blank"
    /\ dom = NoDom
    /\ build = 0
    /\ chips = <<>>
    /\ isEditMode = FALSE
    /\ clock = 0
    /\ editor = NoEditor
    /\ creates = 0

Init ==
    PageOpened(EnvsOver(PlainTexts(ZipColl), PlainTexts(FileColl)),
               PlainTexts(CacheColl))

\* ZipLoader.processZipContents: this.annotations stays null when the zip
\* has no annotation file or its text does not parse
ProcessZipContents(zipAnn) ==
    LET parsed == JSONparse(zipAnn) IN
    IF zipAnn.t # "absent" /\ parsed.ok /\ parsed.kind # "null"
    THEN [present |-> TRUE, annKind |-> parsed.kind, annotations |-> parsed.v]
    ELSE [present |-> TRUE, annKind |-> "null",
          annotations |-> EmptyCollection]

\* a constructor that goes on to the local file when the zip has no payload
AnnotationManagerFallThrough(zl, storage) ==
    IF zl.present /\ zl.annKind = "object"
    THEN [annotations |-> zl.annotations, fileLoad |-> "none"]
    ELSE [annotations |-> EmptyCollection, fileLoad |-> "pending"]

\* a constructor that takes the zip's payload without returning, and so
\* starts the load of the local file as well
AnnotationManagerAlsoLoadsFile(zl, storage) ==
    IF zl.present /\ zl.annKind = "object"
    THEN [annotations |-> zl.annotations, fileLoad |-> "pending"]
    ELSE IF zl.present
    THEN [annotations |-> loadPersistedAnnotations(storage).annotations,
          fileLoad |-> "none"]
    ELSE [annotations |-> EmptyCollection, fileLoad |-> "pending"]

\* new AnnotationManager(slideViewer, zipLoader): the collection it ends
\* with and whether it started loadAnnotationsFromFile()
AnnotationManager(zl, storage) ==
    IF zl.present
    \* if (this.zipLoader.getAnnotations())
    THEN IF zl.annKind # "null"
         THEN [annotations |-> zl.annotations, fileLoad |-> "none"]
         ELSE [annotations |-> loadPersistedAnnotations(storage).annotations,
               fileLoad |-> "none"]
    ELSE [annotations |-> EmptyCollection, fileLoad |-> "pending"]

\* initializeApp(zipLoader) up to and including
\* adminController.annotationManager = new AnnotationManager(...)
InitializeApp(zl) ==
    /\ phase' = "constructed"
    /\ zipLoader' = zl
    /\ currentSlideIndex' = 1
    /\ LET ctor == AnnotationManager(NoZipLoader, localStorage)
           main == AnnotationManager(zl, localStorage)
       IN  /\ annotations' = [m \in Mgrs |-> IF m = "ctor" THEN ctor.annotations
                                             ELSE main.annotations]
           /\ fileLoad' = [m \in Mgrs |-> IF m = "ctor" THEN ctor.fileLoad
                                          ELSE main.fileLoad]
    /\ UNCHANGED << loc, rt, drag, env, localStorage, pendingLoads, requested, nav, tips, display, dom,
                    build, chips, isEditMode, clock, editor, creates >>

\* DOMContentLoaded without slidesZipUrl
StartWithoutZip ==
    /\ phase = "loading"
    /\ ~env.url
    /\ InitializeApp(NoZipLoader)

\* zipLoader.downloadAndExtract(slidesZipUrl) resolved true
ZipLoaded ==
    /\ phase = "loading"
    /\ env.url /\ env.zipOk
    /\ InitializeApp(ProcessZipContents(env.zipAnn))

\* zipLoader.downloadAndExtract(slidesZipUrl) resolved false: the error is
\* shown and initializeApp() is scheduled
ZipFailed ==
    /\ phase = "loading"
    /\ env.url /\ ~env.zipOk
    /\ phase' = "error"
    /\ display' = "error"
    /\ UNCHANGED << loc, rt, drag, env, localStorage, zipLoader, annotations,
                    fileLoad, currentSlideIndex, pendingLoads, requested, nav, tips, dom, build,
                    chips, isEditMode, clock, editor, creates >>

\* a timer that asks for the zip again instead of starting without it
ErrorTimerRetriesZip ==
    /\ phase = "error"
    /\ phase' = "loading"
    /\ display' = "loading"
    /\ UNCHANGED << loc, rt, drag, env, localStorage, zipLoader, annotations,
                    fileLoad, currentSlideIndex, pendingLoads, requested, nav, tips, dom, build,
                    chips, isEditMode, clock, editor, creates >>

\* setTimeout(() => initializeApp(), 2000)
ErrorTimer ==
    /\ phase = "error"
    /\ InitializeApp(NoZipLoader)

\* SlideViewer.loadSlide from "Set the SVG content" on: the display is
\* rebuilt and the index updated; st is what the afterSlideLoad handler left
SlideRendered(index, st) ==
    /\ display' = "svg"
    /\ dom' = st.dom
    /\ build' = build + 1
    /\ currentSlideIndex' = index
    /\ annotations' = [annotations EXCEPT !["main"] = st.coll]
    /\ localStorage' = st.storage
    /\ chips' = st.chips

\* the afterSlideLoad handler applies the annotations of the manager the
\* AdminController holds to the new <svg>
SlideShown(index, coll) ==
    SlideRendered(index,
        applyAnnotationsForSlide(
            [coll |-> coll, dom |-> FreshDom(index),
             storage |-> localStorage, chips |-> <<>>],
            index, TRUE, isEditMode, build + 1))

\* SlideViewer.loadSlide(index): the beforeSlideLoad handler, then the slide
\* from the zip at once, or a fetch of slides/Slide<index>.SVG
LoadSlide(index) ==
    LET saved == IF isEditMode
                 THEN saveAllAnnotationPositions(annotations["main"],
                                                 currentSlideIndex, chips)
                 ELSE annotations["main"]
    IN  IF zipLoader'.present
        THEN /\ build < MaxBuilds
             /\ SlideShown(index, saved)
             /\ UNCHANGED pendingLoads
             /\ requested' = index
             /\ nav' = nav
             /\ tips' = TipsAfterRebuild(tips)
        ELSE /\ pendingLoads' = pendingLoads \cup {index}
             /\ requested' = index
             /\ nav' = nav
             /\ tips' = tips
             /\ annotations' = [annotations EXCEPT !["main"] = saved]
             /\ UNCHANGED << localStorage, display, dom, build,
                             currentSlideIndex, chips >>

\* initializeApp: slideViewer.loadSlide(1)
LoadFirstSlide ==
    /\ phase = "constructed"
    /\ phase' = "ready"
    /\ UNCHANGED zipLoader
    /\ LoadSlide(1)
    /\ UNCHANGED << loc, rt, drag, env, fileLoad, isEditMode, clock, editor,
                    creates >>

\* the promise of loadAnnotationsFromFile() of manager m settles, and with
\* it the then-callback of the constructor
FileLoadSettles(m) ==
    /\ fileLoad[m] = "pending"
    /\ fileLoad' = [fileLoad EXCEPT ![m] = "settled"]
    /\ annotations' = [annotations EXCEPT ![m] =
                          InitialLoad(annotations[m], env.file, localStorage)]
    /\ UNCHANGED << loc, rt, drag, env, phase, localStorage, zipLoader,
                    currentSlideIndex, pendingLoads, requested, nav, tips, display, dom, build,
                    chips, isEditMode, clock, editor, creates >>

\* the fetch of slides/Slide<index>.SVG answers
SlideFetched(index) ==
    /\ index \in pendingLoads
    /\ build < MaxBuilds
    /\ pendingLoads' = pendingLoads \ {index}
    /\ SlideShown(index, annotations["main"])
    /\ tips' = TipsAfterRebuild(tips)
    /\ UNCHANGED << loc, rt, drag, env, phase, zipLoader, fileLoad, isEditMode,
                    clock, editor, creates, requested, nav >>

\* a catch block that records the slide that failed as the current one
SlideFetchFailedAdvances(index) ==
    /\ index \in pendingLoads
    /\ pendingLoads' = pendingLoads \ {index}
    /\ display' = "error"
    /\ dom' = NoDom
    /\ chips' = <<>>
    /\ tips' = TipsAfterRebuild(tips)
    /\ currentSlideIndex' = index
    /\ UNCHANGED << loc, rt, drag, env, phase, localStorage, zipLoader,
                    annotations, fileLoad, build, isEditMode, clock, editor,
                    creates, requested, nav >>

\* the fetch fails or answers with a non-OK status
SlideFetchFailed(index) ==
    /\ index \in pendingLoads
    /\ pendingLoads' = pendingLoads \ {index}
    /\ display' = "error"
    /\ dom' = NoDom
    /\ chips' = <<>>
    /\ tips' = TipsAfterRebuild(tips)
    /\ UNCHANGED << loc, rt, drag, env, phase, localStorage, zipLoader, annotations,
                    fileLoad, currentSlideIndex, build, isEditMode, clock,
                    editor, creates, requested, nav >>

\* previous / next button, ArrowLeft / ArrowRight
Navigate(index) ==
    /\ phase = "ready"
    /\ ~editor.open
    /\ index \in Slides
    /\ index = currentSlideIndex - 1 \/ index = currentSlideIndex + 1
    /\ UNCHANGED zipLoader
    /\ LoadSlide(index)
    /\ UNCHANGED << loc, rt, drag, env, phase, fileLoad, isEditMode, clock, editor,
                    creates >>

\* the manager the AdminController holds, the svg, the cache and the chips,
\* as the store operations see them, and their write-back
StoreState ==
    [coll |-> annotations["main"], dom |-> dom, storage |-> localStorage,
     chips |-> chips]

StoreWritten(st) ==
    /\ annotations' = [annotations EXCEPT !["main"] = st.coll]
    /\ dom' = st.dom
    /\ localStorage' = st.storage
    /\ chips' = st.chips

\* the Edit Mode button
ToggleEditMode ==
    /\ phase = "ready"
    /\ ~editor.open
    /\ isEditMode' = ~isEditMode
    /\ StoreWritten(IF ~isEditMode
                    THEN enterEditMode(StoreState, currentSlideIndex,
                                       display = "svg", build)
                    ELSE exitEditMode(StoreState, currentSlideIndex,
                                      display = "svg", build))
    /\ UNCHANGED << loc, rt, drag, env, phase, zipLoader, fileLoad,
                    currentSlideIndex, pendingLoads, requested, nav, tips, display, build, clock,
                    editor, creates >>

\* the Remove button of the elements list, for element n; the clock has
\* moved on since the user last used the list
RemoveElement(n) ==
    /\ isEditMode
    /\ ~editor.open
    /\ display = "svg"
    /\ clock < MaxClock
    /\ n \in StaticNodes(dom.doc) \ dom.removed
    /\ clock' = clock + 1
    /\ dom' = [dom EXCEPT !.removed = @ \cup {n}]
    /\ UNCHANGED << loc, rt, drag, env, phase, localStorage, zipLoader, annotations,
                    fileLoad, currentSlideIndex, pendingLoads, requested, nav, tips, display, build,
                    chips, isEditMode, editor, creates >>

\* the Download Annotations button
DownloadAnnotations ==
    /\ isEditMode
    /\ ~editor.open
    /\ StoreWritten(downloadAnnotations(StoreState, currentSlideIndex,
                                        display = "svg"))
    /\ UNCHANGED << loc, rt, drag, env, phase, zipLoader, fileLoad,
                    currentSlideIndex, pendingLoads, requested, nav, tips, display, build,
                    isEditMode, clock, editor, creates >>

\* the Annotate button of the elements list, for element n: the rich text
\* editor opens with the list's callback; the clock has moved on since the
\* last time the user opened it
Annotate(n) ==
    /\ isEditMode
    /\ ~editor.open
    /\ display = "svg"
    /\ clock < MaxClock
    /\ n \in StaticNodes(dom.doc) \ dom.removed
    /\ clock' = clock + 1
    /\ editor' = [open |-> TRUE, target |-> n, cb |-> "list",
                  build |-> build, tdom |-> dom, content |-> "", chip |-> 0]
    /\ UNCHANGED << loc, rt, drag, env, phase, localStorage, zipLoader, annotations,
                    fileLoad, currentSlideIndex, pendingLoads, requested, nav, tips, display, dom,
                    build, chips, isEditMode, creates >>

\* Save in the editor with an empty text: createAnnotation('', element)
\* opens the editor again and save() then closes it
EditorSaveEmpty ==
    /\ editor.open
    /\ editor.cb = "list"
    /\ editor' = NoEditor
    /\ UNCHANGED << loc, rt, drag, env, phase, localStorage, zipLoader, annotations,
                    fileLoad, currentSlideIndex, pendingLoads, requested, nav, tips, display, dom,
                    build, chips, isEditMode, clock, creates >>

\* the element the editor was opened for is still in the svg on display
EditorAttached == editor.build = build /\ display = "svg"

\* Save in the editor with a text: the list's callback creates the note
SaveNote ==
    /\ editor.open
    /\ editor.cb = "list"
    /\ creates' = creates + 1
    /\ editor' = NoEditor
    /\ StoreWritten(createAnnotation(
            StoreState, "session", editor.target, EditorAttached,
            IF EditorAttached THEN dom ELSE editor.tdom, editor.build,
            currentSlideIndex, clock, isEditMode))
    /\ UNCHANGED << loc, rt, drag, env, phase, zipLoader, fileLoad,
                    currentSlideIndex, pendingLoads, requested, nav, tips, display, build,
                    isEditMode, clock >>

\* the saves of a session, up to the bound on them
EditorSave == creates < MaxCreates /\ SaveNote

\* Cancel in the editor
EditorCancel ==
    /\ editor.open
    \* a hand on the modal is slower than the 50 ms of a reset timer
    /\ \A c \in DOMAIN drag.timers : drag.timers[c] = 0
    /\ editor' = NoEditor
    /\ UNCHANGED << loc, rt, drag, env, phase, localStorage, zipLoader, annotations,
                    fileLoad, currentSlideIndex, pendingLoads, requested, nav, tips, display, dom,
                    build, chips, isEditMode, clock, creates >>

\* ------------------------------------------------------------------------
\* SpecLocator: resolution as a function of a DOM and a descriptor
\* ------------------------------------------------------------------------

LocParts ==
    {Part("g", 0), Part("rect", 0), Part("rect", 1), Part("rect", 5), JunkPart}

RECURSIVE PartSeqs(_)
PartSeqs(n) ==
    IF n = 0 THEN {<<>>}
    ELSE PartSeqs(n - 1)
            \cup {Append(s, p) : s \in {t \in PartSeqs(n - 1) : Len(t) = n - 1},
                                 p \in LocParts}

LocPaths == {NullPath} \cup {PathOf(s) : s \in PartSeqs(MaxPathLen)}

LocAttrs ==
    {NullAttrs, AttrsObj({}), AttrsObj({<<"x", "10">>, <<"y", "20">>}),
     AttrsObj({<<"x", "99">>})}

LocDoms ==
    {FreshDom(1), FreshDom(2), [FreshDom(1) EXCEPT !.ind = 1],
     FreshDom(NestedDoc)}

LocRecords ==
    [type : {"annotation", "removed"},
     elementId : {NoId, 1, GhostId},
     elementPath : LocPaths,
     elementTag : {"rect", "g", NullTag},
     elementAttributes : LocAttrs]

InitLocator ==
    /\ \E d \in LocDoms, r \in LocRecords :
          loc = [dom |-> d, rec |-> r, described |-> NoElement,
                 found |-> NoElement, target |-> NoElement, done |-> {}]
    /\ rt = RtIdle
    /\ AppIdle

\* a call findElementByPath(svg, rec.elementPath, rec.elementTag,
\* rec.elementAttributes)
FindByPath ==
    /\ "find" \notin loc.done
    /\ loc' = [loc EXCEPT
                !.found = findElementByPath(loc.dom, loc.rec.elementPath,
                              loc.rec.elementTag, loc.rec.elementAttributes),
                !.done = @ \cup {"find"}]
    /\ UNCHANGED << rt, appVars >>

\* the resolution applyAnnotationsForSlide performs for the record
ResolveRecord ==
    /\ "resolve" \notin loc.done
    /\ loc' = [loc EXCEPT !.target = ResolveTarget(loc.dom, loc.rec),
                          !.done = @ \cup {"resolve"}]
    /\ UNCHANGED << rt, appVars >>

\* the five descriptor fields of a record
Descriptor(rec) ==
    [type |-> rec.type, elementId |-> rec.elementId,
     elementPath |-> rec.elementPath, elementTag |-> rec.elementTag,
     elementAttributes |-> rec.elementAttributes]

\* createAnnotation(text, element) describes element n of the document and
\* gives it an id when it has none
DescribeNote(n) ==
    /\ loc.done = {}
    /\ loc.described = NoElement
    /\ n \in StaticNodes(loc.dom.doc)
    /\ LET st == createAnnotation(
                    [coll |-> EmptyCollection, dom |-> loc.dom,
                     storage |-> AbsentText, chips |-> <<>>],
                    "note", n, TRUE, loc.dom, 0, 1, 0, FALSE)
       IN  loc' = [loc EXCEPT !.dom = st.dom,
                              !.rec = Descriptor(st.coll[1][1]),
                              !.described = n]
    /\ UNCHANGED << rt, appVars >>

\* the element n is deleted and saveRemovedElements describes it
DescribeRemoved(n) ==
    /\ loc.done = {}
    /\ loc.described = NoElement
    /\ n \in StaticNodes(loc.dom.doc)
    /\ LET d1 == [loc.dom EXCEPT !.removed = @ \cup {n}]
       IN  loc' = [loc EXCEPT
                    !.dom = d1,
                    !.rec = RemovedLoop(<<>>, d1, <<n>>)[1],
                    !.described = n]
    /\ UNCHANGED << rt, appVars >>

NextLocator ==
    \/ FindByPath
    \/ ResolveRecord
    \/ \E n \in StaticNodes(loc.dom.doc) : DescribeNote(n)
    \/ \E n \in StaticNodes(loc.dom.doc) : DescribeRemoved(n)

SpecLocator == InitLocator /\ [][NextLocator]_vars

\* --- C5 -----------------------------------------------------------------
\* C5: a descriptor without id whose structural path indexes past the
\* matching children, but whose tag and recorded attributes match an element
\* of the document, resolves to the first element of that tag whose recorded
\* attributes all match.
C5_AttributeFallback ==
    ( /\ "find" \in loc.done
      /\ loc.rec.elementId = NoId
      /\ ~loc.rec.elementPath.null
      /\ \A i \in 1..Len(loc.rec.elementPath.parts) :
            loc.rec.elementPath.parts[i].ok
      /\ PathWalk(loc.dom, loc.rec.elementPath.parts, Root) = NoElement
      /\ ~loc.rec.elementAttributes.null
      /\ loc.rec.elementAttributes.kv # {}
      /\ AttributeSearch(loc.dom, loc.rec.elementTag,
                         loc.rec.elementAttributes) # NoElement )
    => loc.found = AttributeSearch(loc.dom, loc.rec.elementTag,
                                   loc.rec.elementAttributes)

\* --- C6 -----------------------------------------------------------------
\* C6: for a Note and for a Removal record, when the record has an id and
\* getElementById finds an element, that element is the resolution, whatever
\* the structural path resolves to.
C6_IdAuthority ==
    ( /\ "resolve" \in loc.done
      /\ loc.rec.elementId # NoId
      /\ GetElementById(loc.dom, loc.rec.elementId) # NoElement )
    => loc.target = GetElementById(loc.dom, loc.rec.elementId)

\* a resolved record whose id names one element and whose path names another
C6_Witness ==
    /\ "resolve" \in loc.done
    /\ loc.rec.type = "removed"
    /\ GetElementById(loc.dom, loc.rec.elementId) # NoElement
    /\ ~loc.rec.elementPath.null
    /\ PathWalk(loc.dom, loc.rec.elementPath.parts, Root)
          \notin {NoElement, Root, GetElementById(loc.dom, loc.rec.elementId)}
    /\ loc.target = GetElementById(loc.dom, loc.rec.elementId)

\* --- C7 -----------------------------------------------------------------
\* the descriptor names no element: its path is out of range, or no part of
\* its path has the form tag[index]
Unresolvable(d, r) ==
    /\ ~r.elementPath.null
    /\ \/ PathWalk(d, r.elementPath.parts, Root) = NoElement
       \/ /\ r.elementPath.parts # <<>>
          /\ \A i \in 1..Len(r.elementPath.parts) :
                ~r.elementPath.parts[i].ok

\* C7: findElementByPath returns null for a descriptor whose structural path
\* is out of range and for a malformed descriptor (path segments not of the
\* form tag[index], attributes missing).
C7_SoftFailure ==
    ("find" \in loc.done /\ Unresolvable(loc.dom, loc.rec))
    => loc.found = NoElement

\* --- C31 ----------------------------------------------------------------
\* C31: resolving the descriptor produced for an element of the document
\* (path, tag, id, attributes) against the same document returns that
\* element, with or without an id, at any depth.
C31_DescribeResolve ==
    ("resolve" \in loc.done /\ loc.described # NoElement)
    => loc.target = loc.described

\* ------------------------------------------------------------------------
\* SpecRoundTrip: persistAnnotations, then loadPersistedAnnotations in a
\* fresh manager
\* ------------------------------------------------------------------------

HelloNote ==
    NoteRecord("Hello", PathOf(<<Part("g", 0), Part("rect", 0)>>), "rect", 1,
               AttrsObj({<<"x", "10">>, <<"y", "20">>}),
               [left |-> Px(100), top |-> Px(200)], 1)

FreeNote ==
    NoteRecord("<b>free</b>", NullPath, NullTag, NoId, NullAttrs,
               [left |-> Pct(50), top |-> Pct(50)], 2)

RectRemoval ==
    RemovalRecord("rect", PathOf(<<Part("rect", 0)>>),
                  AttrsObj({<<"x", "10">>, <<"y", "20">>,
                            <<"class", "removed">>}), NoId)

StaleNote ==
    NoteRecord("stale", NullPath, NullTag, NoId, NullAttrs,
               [left |-> Px(10), top |-> Px(10)], 3)

RtRecords == {HelloNote, FreeNote, RectRemoval}

RECURSIVE SeqsUpTo(_, _)
SeqsUpTo(S, n) ==
    IF n = 0 THEN {<<>>}
    ELSE SeqsUpTo(S, n - 1)
            \cup {Append(q, x) : q \in {r \in SeqsUpTo(S, n - 1) : Len(r) = n - 1},
                                 x \in S}

RtCollections ==
    UNION {[K -> SeqsUpTo(RtRecords, MaxRtLen)] : K \in SUBSET Slides}

RtStorages ==
    {AbsentText, GarbageText, JSONstringify([k \in {1} |-> <<StaleNote>>])}

InitRoundTrip ==
    /\ \E c \in RtCollections, st \in RtStorages :
          rt = [mem |-> c, storage |-> st, fresh |-> EmptyCollection,
                step |-> "start"]
    /\ loc = LocIdle
    /\ AppIdle

\* the manager holding rt.mem serializes it into the durable cache
RtPersist ==
    /\ rt.step = "start"
    /\ rt' = [rt EXCEPT !.storage = persistAnnotations(rt.mem, rt.storage),
                        !.step = "persisted"]
    /\ UNCHANGED << loc, appVars >>

\* a fresh manager reads the durable cache back
RtLoad ==
    /\ rt.step = "persisted"
    /\ rt' = [rt EXCEPT
                !.fresh = loadPersistedAnnotations(rt.storage).annotations,
                !.step = "loaded"]
    /\ UNCHANGED << loc, appVars >>

NextRoundTrip == RtPersist \/ RtLoad

SpecRoundTrip == InitRoundTrip /\ [][NextRoundTrip]_vars

InitStartup ==
    PageOpened(EnvsOver(SourceTexts(ZipColl), SourceTexts(FileColl)),
               SourceTexts(CacheColl))

NextStartup ==
    \/ StartWithoutZip
    \/ ZipLoaded
    \/ ZipFailed
    \/ ErrorTimer
    \/ LoadFirstSlide
    \/ \E m \in Mgrs : FileLoadSettles(m)
    \/ \E i \in Slides : SlideFetched(i)
    \/ \E i \in Slides : SlideFetchFailed(i)
    \/ \E i \in Slides : Navigate(i)

SpecStartup == InitStartup /\ [][NextStartup]_vars

\* C23: once every load has settled and a slide is on display, the slide
\* on display, its number and its document are those of the slide that was
\* requested last.
C23_LatestRequestWins ==
    (phase = "ready" /\ pendingLoads = {} /\ display = "svg") =>
        /\ currentSlideIndex = requested
        /\ dom.doc = requested

\* C24: no slide is on display, with the overlays applied to it, while the
\* initial load of the collection in use has not settled.
C24_InitialLoadGates ==
    display = "svg" => fileLoad["main"] # "pending"

\* what a source text holds when it is the JSON text of an object
ContentOf(text) == [k \in {text.members[i].key : i \in DOMAIN text.members} |->
                       text.members[CHOOSE i \in DOMAIN text.members :
                                        text.members[i].key = k].value]

\* a Note that came from the sample file / the sample cache content
FromFile(r) == r.type = "annotation" /\ r.text = "file"
FromCache(r) ==
    \/ r.type = "annotation" /\ r.text = "cache"
    \/ r.type = "removed" /\ r.elementAttributes = CacheRemoval.elementAttributes

\* some record of the collection satisfies the test
SomeRecord(coll, Test(_)) ==
    \E k \in DOMAIN coll : \E i \in 1..Len(coll[k]) : Test(coll[k][i])

Next ==
    \/ NextStartup
    \/ ToggleEditMode
    \/ \E n \in StaticNodes(dom.doc) : RemoveElement(n)
    \/ DownloadAnnotations
    \/ \E n \in StaticNodes(dom.doc) : Annotate(n)
    \/ EditorSaveEmpty
    \/ EditorSave
    \/ EditorCancel

Spec == Init /\ [][Next]_vars

\* nothing of an earlier application is left: no chip, no element registered
\* for a tooltip, no indicator
NoArtifacts == chips = <<>> /\ dom.annotated = {} /\ dom.ind = 0

\* C25: when the overlays are applied, by the Edit Mode button or for a
\* slide that was fetched, and the slide on display has no records, no chip,
\* no tooltip registration and no indicator of an earlier application is
\* left.
C25_ClearedOnApply ==
    [][(/\ ToggleEditMode \/ (\E i \in Slides : SlideFetched(i))
        /\ display' = "svg"
        /\ currentSlideIndex' \notin DOMAIN annotations'["main"]) =>
          NoArtifacts']_vars

\* the position updateAnnotationPosition stores for a chip
ChipPosition(chip) ==
    [left |-> StyleOrOffset(chip.left, OffsetLeft(chip)),
     top |-> StyleOrOffset(chip.top, OffsetTop(chip))]

\* record j of sequence q is the first Note of q with its created value
FirstWithCreated(q, j) ==
    /\ q[j].type = "annotation"
    /\ \A h \in 1..(j - 1) :
          q[h].type = "annotation" => q[h].created # q[j].created

\* C29: when the positions of the chips on display are stored as the user
\* navigates, a record of the slide that was current changes only if it is
\* the first Note of the sequence with the created value of a chip, and
\* only in its position, which becomes that chip's; a chip without such a
\* record, or a slide without a sequence, changes nothing. Where the next
\* slide is yet to be fetched the other slides keep their sequences.
C29_PositionOnly ==
    [][(\E i \in Slides : Navigate(i)) =>
         /\ currentSlideIndex \in DOMAIN annotations["main"] =>
               /\ currentSlideIndex \in DOMAIN annotations'["main"]
               /\ Len(annotations'["main"][currentSlideIndex]) =
                     Len(annotations["main"][currentSlideIndex])
               /\ \A j \in 1..Len(annotations["main"][currentSlideIndex]) :
                     annotations'["main"][currentSlideIndex][j] #
                        annotations["main"][currentSlideIndex][j] =>
                        /\ FirstWithCreated(
                              annotations["main"][currentSlideIndex], j)
                        /\ \E c \in DOMAIN chips :
                              /\ chips[c].id =
                                    annotations["main"][currentSlideIndex][j].created
                              /\ annotations'["main"][currentSlideIndex][j] =
                                    [annotations["main"][currentSlideIndex][j]
                                       EXCEPT !.position = ChipPosition(chips[c])]
         /\ ~zipLoader.present =>
               /\ DOMAIN annotations'["main"] = DOMAIN annotations["main"]
               /\ \A k \in DOMAIN annotations["main"] \ {currentSlideIndex} :
                     annotations'["main"][k] = annotations["main"][k]]_vars

\* the note of the cache that had the 50% default has the pixel offset of
\* its chip stored, which only updateAnnotationPosition writes
C29_Witness ==
    \E k \in DOMAIN annotations["main"] :
       \E j \in 1..Len(annotations["main"][k]) :
          /\ ~zipLoader.present
          /\ FromCache(annotations["main"][k][j])
          /\ annotations["main"][k][j].type = "annotation"
          /\ annotations["main"][k][j].elementPath.null
          /\ annotations["main"][k][j].position =
                [left |-> Px(ContainerW \div 2), top |-> Px(ContainerH \div 2)]

\* a record made in this session: a Note from the editor, or a Removal
\* saveRemovedElements appended (it records the class removed)
FromSession(r) ==
    \/ r.type = "annotation" /\ r.text = "session"
    \/ r.type = "removed"
       /\ ~r.elementAttributes.null
       /\ \E a \in r.elementAttributes.kv : a[1] = "class"
FromZip(r) == r.type = "annotation" /\ r.text = "zip"

RemovalsFor(q, d, n) ==
    {i \in 1..Len(q) :
        /\ q[i].type = "removed"
        /\ \/ IdOf(d, n) # NoId /\ q[i].elementId = IdOf(d, n)
           \/ q[i].elementPath = getElementPath(d, n)}

\* C8: after a download (saveRemovedElements twice), and so after any number
\* of them, the sequence of the current slide holds exactly one Removal
\* record for every removed element of the svg on display, and running
\* saveRemovedElements again adds nothing.  (The step is a download; what a
\* download leaves unchanged is restated in front of it.)
C8_OneRemovalPerElement ==
    [][(/\ display = "svg"
        /\ UNCHANGED << isEditMode, editor, clock, build, fileLoad, phase >>
        /\ DownloadAnnotations) =>
          /\ \A n \in dom'.removed :
                Cardinality(RemovalsFor(annotations'["main"][currentSlideIndex'],
                                        dom', n)) = 1
          /\ saveRemovedElements(
                [coll |-> annotations'["main"], dom |-> dom',
                 storage |-> localStorage', chips |-> chips'],
                currentSlideIndex', TRUE).coll = annotations'["main"]]_vars

\* two elements are removed, one with an id and one without, and the
\* sequence of the slide on display holds one Removal for each
C8_Witness ==
    /\ display = "svg"
    /\ \E n, m \in dom.removed :
          /\ IdOf(dom, n) # NoId
          /\ IdOf(dom, m) = NoId
    /\ currentSlideIndex \in DOMAIN annotations["main"]
    /\ \A n \in dom.removed :
          /\ Cardinality(RemovalsFor(annotations["main"][currentSlideIndex],
                                     dom, n)) = 1
          /\ \A i \in RemovalsFor(annotations["main"][currentSlideIndex], dom, n) :
                FromSession(annotations["main"][currentSlideIndex][i])


\* ------------------------------------------------------------------------
\* Spec: what happens to the records of the collection in use
\* ------------------------------------------------------------------------

\* the record r is in the collection under slide k: a Note is known by its
\* created value, a Removal by the path of its element (position, text and
\* elementId of a record may change)
Retained(coll, k, r) ==
    /\ k \in DOMAIN coll
    /\ \E j \in 1..Len(coll[k]) :
          /\ coll[k][j].type = r.type
          /\ IF r.type = "annotation" THEN coll[k][j].created = r.created
             ELSE coll[k][j].elementPath = r.elementPath

\* C11: no step of the application (there is no deletion by the user among
\* them) takes a record out of the collection in use: every record of a
\* slide's sequence is in that sequence after the step.
C11_NoAutomaticDeletion ==
    [][\A k \in DOMAIN annotations["main"] :
          \A i \in 1..Len(annotations["main"][k]) :
              Retained(annotations'["main"], k, annotations["main"][k][i])]_vars

\* a step in which applyAnnotationsForSlide ran on the svg on display: the
\* display was rebuilt, or edit mode was toggled
Applied ==
    /\ build' = build + 1 \/ isEditMode' # isEditMode
    /\ display' = "svg"
    /\ currentSlideIndex' \in DOMAIN annotations'["main"]

\* the record names an element, by id or by path
HasDescriptor(r) == r.elementId # NoId \/ PathTruthy(r.elementPath)

\* the records of the slide on display after the step that name an element
\* which is not found in the svg as the step leaves it
Orphans ==
    {i \in 1..Len(annotations'["main"][currentSlideIndex']) :
        /\ HasDescriptor(annotations'["main"][currentSlideIndex'][i])
        /\ ResolveTarget(dom', annotations'["main"][currentSlideIndex'][i])
              = NoElement}

\* the Notes of the slide on display after the step whose element is found
ResolvedNotes ==
    {i \in 1..Len(annotations'["main"][currentSlideIndex']) :
        /\ annotations'["main"][currentSlideIndex'][i].type = "annotation"
        /\ ResolveTarget(dom', annotations'["main"][currentSlideIndex'][i])
              # NoElement}

C13_RemovalCreatesRecord ==
    [][\A n \in StaticNodes(dom.doc) :
          RemoveElement(n) =>
              /\ currentSlideIndex \in DOMAIN annotations'["main"]
              /\ RemovalsFor(annotations'["main"][currentSlideIndex],
                             dom', n) # {}]_vars


\* ZipLoader.getAnnotations() now. zipLoader.annotations is the value
\* JSON.parse gave processZipContents; the constructor assigns that very
\* object to this.annotations of the manager, which never assigns the field
\* again when it took the zip's payload: from then on the two fields name
\* one object, and what the ZipLoader returns is the manager's collection.
getAnnotations ==
    IF zipLoader.present /\ zipLoader.annKind # "null"
    THEN annotations["main"]
    ELSE zipLoader.annotations

\* C15: the collection ZipLoader.getAnnotations() returns is the one that
\* was extracted from the zip, whatever was created, removed, downloaded
\* or applied in the session.
C15_BundleReadOnly ==
    zipLoader.present /\ zipLoader.annKind = "object" =>
        getAnnotations = zipLoader.annotations

\* C33: a note is stored under the key of the slide whose document holds
\* its target element: a Save in the editor opened for an element of slide N
\* appends the note to the sequence of slide N, also when another slide was
\* loaded while the editor was open.
C33_StoredUnderOwnSlide ==
    [][EditorSave =>
          Len(SeqOf(annotations'["main"], editor.tdom.doc))
              = Len(SeqOf(annotations["main"], editor.tdom.doc)) + 1]_vars

\* ------------------------------------------------------------------------
\* SpecDrag: the mouse on the note chips of a slide in edit mode
\* ------------------------------------------------------------------------

\* a free note with a text that is not HTML, at the default position
AmpNote ==
    NoteRecord("R&D", NullPath, NullTag, NoId, NullAttrs,
               [left |-> Pct(50), top |-> Pct(50)], 302)

DragColl == [k \in {1} |-> <<ZipNote, AmpNote>>]

\* the movements of the mouse between two mousemove events
Deltas == {<<5, 0>>, <<0 - 5, 5>>}

\* the page with the store state st on slide 1, in edit mode
DragPage(st) ==
    /\ loc = LocIdle
    /\ rt = RtIdle
    /\ drag = [DragIdle EXCEPT
                !.isDragging = [c \in 1..(Len(st.chips) + MaxNotes) |-> FALSE],
                !.timers = [c \in 1..(Len(st.chips) + MaxNotes) |-> 0]]
    /\ env = [url |-> TRUE, zipOk |-> TRUE, zipAnn |-> JSONstringify(DragColl),
              file |-> JSONstringify(FileColl)]
    /\ phase = "ready"
    /\ localStorage = st.storage
    /\ zipLoader = ProcessZipContents(JSONstringify(DragColl))
    /\ annotations = [m \in Mgrs |-> IF m = "main" THEN st.coll
                                     ELSE EmptyCollection]
    /\ fileLoad = [m \in Mgrs |-> IF m = "main" THEN "none" ELSE "pending"]
    /\ currentSlideIndex = 1
    /\ pendingLoads = {}
    /\ requested = 1
    /\ nav = NavIdle
    /\ tips = TipsIdle
    /\ display = "svg"
    /\ dom = st.dom
    /\ build = 1
    /\ chips = st.chips
    /\ isEditMode = TRUE
    /\ clock = 0
    /\ editor = NoEditor
    /\ creates = 0

\* the zip with DragColl was loaded, slide 1 shown, edit mode entered
InitDrag ==
    DragPage(enterEditMode(
        applyAnnotationsForSlide(
            [coll |-> DragColl, dom |-> FreshDom(1), storage |-> AbsentText,
             chips |-> <<>>], 1, TRUE, FALSE, 1),
        1, TRUE, 1))

\* dragMouseDown(e) on chip c
dragMouseDown(c) ==
    /\ ~editor.open
    /\ drag.pressed = 0
    /\ drag.clickDue = 0
    /\ drag.gestures < MaxGestures
    /\ c \in 1..Len(chips)
    /\ drag' = [drag EXCEPT !.pressed = c,
                            !.isDragging[c] = FALSE,
                            !.gestures = @ + 1,
                            !.moves = 0,
                            !.origin = <<OffsetLeft(chips[c]), OffsetTop(chips[c])>>,
                            !.moved = <<0, 0>>,
                            !.log = <<>>]
    /\ chips' = [chips EXCEPT ![c].isDragging = FALSE]
    /\ UNCHANGED << loc, rt, env, phase, localStorage, zipLoader, annotations,
                    fileLoad, currentSlideIndex, pendingLoads, requested, nav, tips, display, dom,
                    build, isEditMode, clock, editor, creates >>

\* elementDrag(e) of the pressed chip, the mouse having moved by d
elementDrag(d) ==
    /\ drag.pressed # 0
    /\ drag.moves < MaxMoves
    /\ chips' = [chips EXCEPT
                    ![drag.pressed].isDragging = TRUE,
                    ![drag.pressed].left =
                        Px(OffsetLeft(chips[drag.pressed]) + d[1]),
                    ![drag.pressed].top =
                        Px(OffsetTop(chips[drag.pressed]) + d[2])]
    /\ drag' = [drag EXCEPT !.isDragging[drag.pressed] = TRUE,
                            !.moves = @ + 1,
                            !.moved = <<@[1] + d[1], @[2] + d[2]>>]
    /\ UNCHANGED << loc, rt, env, phase, localStorage, zipLoader, annotations,
                    fileLoad, currentSlideIndex, pendingLoads, requested, nav, tips, display, dom,
                    build, isEditMode, clock, editor, creates >>

\* a release that updates the position whether or not the mouse moved
ReleaseUpdatesAlways(isDragging, chip) ==
    << [id |-> chip.id, left |-> Px(OffsetLeft(chip)),
        top |-> Px(OffsetTop(chip))] >>

\* the calls of updateAnnotationPosition closeDragElement makes, with the
\* position each one stores
ReleaseUpdates(isDragging, chip) ==
    IF isDragging
    THEN << [id |-> chip.id, left |-> Px(OffsetLeft(chip)),
             top |-> Px(OffsetTop(chip))] >>
    ELSE <<>>

\* closeDragElement() of chip c, calls being its position updates
DragClosed(c, calls, coll) ==
    /\ annotations' = [annotations EXCEPT !["main"] = coll]
    /\ localStorage' = IF calls # <<>>
                       THEN persistAnnotations(coll, localStorage)
                       ELSE localStorage
    /\ drag' = [drag EXCEPT !.pressed = 0,
                            !.timers[c] = @ + 1,
                            !.clickDue = c,
                            !.log = @ \o calls]

\* closeDragElement(): the mouse button is released
closeDragElement ==
    /\ drag.pressed # 0
    /\ DragClosed(drag.pressed,
                  ReleaseUpdates(drag.isDragging[drag.pressed],
                                 chips[drag.pressed]),
                  IF ReleaseUpdates(drag.isDragging[drag.pressed],
                                    chips[drag.pressed]) # <<>>
                  THEN updateAnnotationPosition(annotations["main"],
                                                currentSlideIndex,
                                                chips[drag.pressed])
                  ELSE annotations["main"])
    /\ UNCHANGED << loc, rt, env, phase, zipLoader, fileLoad,
                    currentSlideIndex, pendingLoads, requested, nav, tips, display, dom, build,
                    chips, isEditMode, clock, editor, creates >>

\* annotationData of the chip with the given id: its index in the sequence
\* of the current slide, 0 if it is not there
ChipRecord(id) ==
    IF currentSlideIndex \in DOMAIN annotations["main"]
    THEN IndexOfCreated(annotations["main"][currentSlideIndex], id, 1)
    ELSE 0

\* the click handler of the chip the mouse was released on; the browser
\* dispatches the click right after the mouseup
chipClick ==
    /\ drag.clickDue # 0
    /\ drag' = [drag EXCEPT !.clickDue = 0]
    /\ editor' =
          IF isEditMode /\ ~chips[drag.clickDue].isDragging
          THEN [open |-> TRUE,
                target |->
                    IF ChipRecord(chips[drag.clickDue].id) = 0 THEN NoElement
                    ELSE GetElementById(dom,
                            annotations["main"][currentSlideIndex]
                                [ChipRecord(chips[drag.clickDue].id)].elementId),
                cb |-> "chip", build |-> build, tdom |-> dom,
                content |-> chips[drag.clickDue].text,
                chip |-> chips[drag.clickDue].id]
          ELSE editor
    /\ UNCHANGED << loc, rt, env, phase, localStorage, zipLoader, annotations,
                    fileLoad, currentSlideIndex, pendingLoads, requested, nav, tips, display, dom,
                    build, chips, isEditMode, clock, creates >>

\* setTimeout(() => { element.isDragging = false; }, 50) of chip c fires
resetTimer(c) ==
    /\ c \in DOMAIN drag.timers
    /\ drag.timers[c] > 0
    /\ drag.clickDue = 0
    /\ drag' = [drag EXCEPT !.timers[c] = @ - 1]
    /\ chips' = [chips EXCEPT ![c].isDragging = FALSE]
    /\ UNCHANGED << loc, rt, env, phase, localStorage, zipLoader, annotations,
                    fileLoad, currentSlideIndex, pendingLoads, requested, nav, tips, display, dom,
                    build, isEditMode, clock, editor, creates >>

\* the callback of the chip's editor, for chip c and record i (0: the record
\* is no longer in the sequence of the current slide)
ChipEdited(c, i, content, coll) ==
    /\ chips' = [chips EXCEPT ![c].text = content]
    /\ annotations' = [annotations EXCEPT !["main"] = coll]
    /\ localStorage' = persistAnnotations(coll, localStorage)
    /\ editor' = NoEditor

\* Save in the editor a chip opened
ChipEditorSave(content) ==
    /\ editor.open
    /\ editor.cb = "chip"
    /\ \A c \in DOMAIN drag.timers : drag.timers[c] = 0
    /\ \E c \in 1..Len(chips) :
          /\ chips[c].id = editor.chip
          /\ ChipEdited(c, ChipRecord(editor.chip), content,
                IF ChipRecord(editor.chip) = 0 THEN annotations["main"]
                ELSE [annotations["main"] EXCEPT
                        ![currentSlideIndex][ChipRecord(editor.chip)].text =
                            content])
    /\ UNCHANGED << loc, rt, drag, env, phase, zipLoader, fileLoad,
                    currentSlideIndex, pendingLoads, requested, nav, tips, display, dom, build,
                    isEditMode, clock, creates >>

\* no chip is pressed, no click is due and no reset timer is pending: the
\* mouse is free for the elements list and the editor's buttons
MouseFree ==
    /\ drag.pressed = 0
    /\ drag.clickDue = 0
    /\ \A c \in DOMAIN drag.timers : drag.timers[c] = 0

NextDrag ==
    \/ \E c \in 1..Len(chips) : dragMouseDown(c)
    \/ \E d \in Deltas : elementDrag(d)
    \/ closeDragElement
    \/ chipClick
    \/ \E c \in 1..Len(chips) : resetTimer(c)
    \/ \E content \in {"", "<p>edited</p>"} : ChipEditorSave(content)
    \/ EditorCancel
    \/ MouseFree /\ (\E n \in StaticNodes(dom.doc) : Annotate(n))
    \/ MouseFree /\ EditorSaveEmpty
    \/ MouseFree /\ EditorSave

SpecDrag == InitDrag /\ [][NextDrag]_vars

\* the position the store holds for the chip with the given id
StoredPosition(coll, cur, id) ==
    coll[cur][IndexOfCreated(coll[cur], id, 1)].position

\* C9: a mouse move of a pressed chip makes no call of
\* updateAnnotationPosition and leaves the store and the cache as they are;
\* a release after one or more moves makes exactly one call, the only one
\* since the press, and it stores the chip's position at the press plus all
\* the movement since; a release without a move makes none.
C9_CommitDiscipline ==
    [][/\ (\E d \in Deltas : elementDrag(d)) =>
              /\ drag'.log = drag.log
              /\ annotations' = annotations
              /\ localStorage' = localStorage
       /\ closeDragElement =>
              IF drag.moves > 0
              THEN /\ drag'.log =
                        << [id |-> chips[drag.pressed].id,
                            left |-> Px(drag.origin[1] + drag.moved[1]),
                            top |-> Px(drag.origin[2] + drag.moved[2])] >>
                   /\ StoredPosition(annotations'["main"], currentSlideIndex,
                                     chips[drag.pressed].id) =
                        [left |-> Px(drag.origin[1] + drag.moved[1]),
                         top |-> Px(drag.origin[2] + drag.moved[2])]
              ELSE /\ drag'.log = <<>>
                   /\ annotations' = annotations
                   /\ localStorage' = localStorage]_vars

\* a chip was dragged with two moves and released: one call was made, and
\* the store holds the position the chip was left at
C9_Witness ==
    /\ drag.pressed = 0
    /\ drag.moves = 2
    /\ Len(drag.log) = 1
    /\ \E c \in 1..Len(chips) :
          /\ chips[c].id = drag.log[1].id
          /\ chips[c].left = drag.log[1].left
          /\ chips[c].top = drag.log[1].top
          /\ StoredPosition(annotations["main"], currentSlideIndex, chips[c].id) =
                [left |-> chips[c].left, top |-> chips[c].top]

\* C10: in edit mode, whenever the reset timers fire, the click that ends a
\* press during which the mouse moved leaves the editor closed, and the
\* click that ends a press without a move opens the editor with the text of
\* the note.
C10_ClickVersusDrag ==
    [][chipClick =>
          IF drag.moves > 0
          THEN ~editor'.open
          ELSE /\ editor'.open
               /\ editor'.content =
                    annotations["main"][currentSlideIndex]
                        [ChipRecord(chips[drag.clickDue].id)].text]_vars

\* a release of the mouse after the chip was moved
MovedRelease == closeDragElement /\ drag.isDragging[drag.pressed]

C17_EmptySaveRejected ==
    [][(EditorSaveEmpty \/ ChipEditorSave("")) =>
          /\ annotations' = annotations
          /\ ~SomeRecord(annotations'["main"],
                         LAMBDA r : r.type = "annotation" /\ r.text = "")]_vars

\* ------------------------------------------------------------------------
\* SpecNotes: the notes of a slide in edit mode through a session: made,
\* dragged, edited, applied again by the Edit Mode button and by navigation
\* ------------------------------------------------------------------------

\* new Date() reads the wall clock, which is not monotonic: the system
\* clock is set back and comes to read an earlier time again
ClockSteppedBack ==
    /\ clock > 0
    /\ ~editor.open
    /\ clock' = clock - 1
    /\ UNCHANGED << loc, rt, drag, env, phase, localStorage, zipLoader,
                    annotations, fileLoad, currentSlideIndex, pendingLoads, requested, nav, tips,
                    display, dom, build, chips, isEditMode, editor, creates >>

NextNotes ==
    \/ \E n \in StaticNodes(dom.doc) : Annotate(n)
    \/ creates < MaxNotes /\ SaveNote
    \/ EditorSaveEmpty
    \/ EditorCancel
    \/ ToggleEditMode
    \/ \E i \in Slides : Navigate(i)
    \/ ClockSteppedBack

SpecNotes == InitDrag /\ [][NextNotes]_vars

\* the Notes of a sequence of records
NotesOf(q) == {i \in 1..Len(q) : q[i].type = "annotation"}

\* C21: no two Notes of a slide's sequence have the same created value.
C21_CreatedIdentifies ==
    \A k \in DOMAIN annotations["main"] :
       \A i, j \in NotesOf(annotations["main"][k]) :
          annotations["main"][k][i].created =
             annotations["main"][k][j].created => i = j

\* a stored position in the "<integer>px" form
IntegerPx(len) == len.unit = "px" /\ ~len.half

\* C22: the position stored for a Note made in the session has a left and
\* a top of the "<integer>px" form.
C22_IntegerPixels ==
    \A k \in DOMAIN annotations["main"] :
       \A i \in NotesOf(annotations["main"][k]) :
          FromSession(annotations["main"][k][i]) =>
             /\ IntegerPx(annotations["main"][k][i].position.left)
             /\ IntegerPx(annotations["main"][k][i].position.top)


\* C28: a save in the editor with a text appends exactly one Note to the
\* end of the sequence of the current slide, and leaves the earlier records
\* of that slide and the sequences of all other slides as they were.
C28_AppendsOne ==
    [][SaveNote =>
         /\ DOMAIN annotations'["main"] =
               DOMAIN annotations["main"] \cup {currentSlideIndex}
         /\ \A k \in DOMAIN annotations["main"] \ {currentSlideIndex} :
               annotations'["main"][k] = annotations["main"][k]
         /\ Len(annotations'["main"][currentSlideIndex]) =
               Len(SeqOf(annotations["main"], currentSlideIndex)) + 1
         /\ SubSeq(annotations'["main"][currentSlideIndex], 1,
                   Len(SeqOf(annotations["main"], currentSlideIndex))) =
               SeqOf(annotations["main"], currentSlideIndex)
         /\ FromSession(annotations'["main"][currentSlideIndex][
               Len(annotations'["main"][currentSlideIndex])])]_vars

\* a note was made on slide 1, behind the two of the zip, and one on
\* slide 2, which had no sequence
C28_Witness ==
    /\ creates = 2
    /\ DOMAIN annotations["main"] = {1, 2}
    /\ Len(annotations["main"][1]) = 3
    /\ FromSession(annotations["main"][1][3])
    /\ Len(annotations["main"][2]) = 1
    /\ FromSession(annotations["main"][2][1])

\* ------------------------------------------------------------------------
\* SpecReapply: the gestures of SpecDrag, and the slide's notes applied
\* again by the Edit Mode button and by navigation
\* ------------------------------------------------------------------------

NextReapply ==
    \/ NextDrag
    \/ MouseFree /\ ToggleEditMode
    \/ MouseFree /\ (\E i \in Slides : Navigate(i))

SpecReapply == InitDrag /\ [][NextReapply]_vars

\* C30: the Note whose chip was last dragged and released keeps the
\* position of that release as its stored position, whatever is applied
\* again afterwards by the Edit Mode button or by navigation.
C30_DragOnly ==
    (drag.pressed = 0 /\ Len(drag.log) = 1) =>
        \A k \in DOMAIN annotations["main"] :
           \A j \in NotesOf(annotations["main"][k]) :
              annotations["main"][k][j].created = drag.log[1].id =>
                 annotations["main"][k][j].position =
                    [left |-> drag.log[1].left, top |-> drag.log[1].top]

\* ------------------------------------------------------------------------
\* SpecTooltip: the pointer over the annotated elements and the tooltips,
\* in view mode and in edit mode, with the indicators clicked in edit mode
\* ------------------------------------------------------------------------

\* the pointer is over no element and over no tooltip
PointerFree == tips.el = NoElement /\ tips.tipOver = "none"

\* no modal editor covers the page and the pointer is free to click
UiFree == PointerFree /\ ~editor.open /\ ~tips.ed.open

\* the elements that carry the listeners of manager m's TooltipManager and
\* have an entry in its annotationMap
Registered(m) == IF m = "main" THEN dom.annotated ELSE tips.reg

\* handleMouseEnter(event) of every TooltipManager listening on element n
handleMouseEnter(n) ==
    /\ display = "svg"
    /\ UiFree
    /\ n \in StaticNodes(dom.doc)
    /\ \E m \in Mgrs : n \in Registered(m)
    /\ tips' = [tips EXCEPT
                  !.el = n,
                  !.visible = [m \in Mgrs |->
                                 IF n \in Registered(m) /\ ~isEditMode
                                 THEN TRUE ELSE @[m]]]
    /\ UNCHANGED << loc, rt, drag, env, phase, localStorage, zipLoader,
                    annotations, fileLoad, currentSlideIndex, pendingLoads,
                    requested, nav, display, dom, build, chips, isEditMode, clock,
                    editor, creates >>

\* handleMouseLeave(event): every TooltipManager listening on the element
\* the pointer leaves starts its timeout of 50 ms
handleMouseLeave ==
    /\ tips.el # NoElement
    /\ \A m \in Mgrs : tips.el \in Registered(m) => tips.timers[m] < MaxTimers
    /\ tips' = [tips EXCEPT
                  !.el = NoElement,
                  !.timers = [m \in Mgrs |->
                                IF tips.el \in Registered(m)
                                THEN @[m] + 1 ELSE @[m]]]
    /\ UNCHANGED << loc, rt, drag, env, phase, localStorage, zipLoader,
                    annotations, fileLoad, currentSlideIndex, pendingLoads,
                    requested, nav, display, dom, build, chips, isEditMode, clock,
                    editor, creates >>

\* hideAfterGrace with the test of :hover only: the tooltip that is not
\* hovered is left as it is
hideAfterGraceKeeps(m) ==
    /\ tips.timers[m] > 0
    /\ tips' = [tips EXCEPT !.timers[m] = @ - 1]
    /\ UNCHANGED << loc, rt, drag, env, phase, localStorage, zipLoader,
                    annotations, fileLoad, currentSlideIndex, pendingLoads,
                    requested, nav, display, dom, build, chips, isEditMode, clock,
                    editor, creates >>

\* the timeout of handleMouseLeave runs: the tooltip is hidden unless it
\* matches :hover
hideAfterGrace(m) ==
    /\ tips.timers[m] > 0
    /\ tips' = [tips EXCEPT
                  !.timers[m] = @ - 1,
                  !.visible[m] = IF tips.tipOver = m THEN @ ELSE FALSE]
    /\ UNCHANGED << loc, rt, drag, env, phase, localStorage, zipLoader,
                    annotations, fileLoad, currentSlideIndex, pendingLoads,
                    requested, nav, display, dom, build, chips, isEditMode, clock,
                    editor, creates >>

\* mouseenter on the tooltip of manager m, which the pointer can reach
\* only while it is displayed
tooltipMouseEnter(m) ==
    /\ PointerFree
    /\ tips.visible[m]
    /\ tips' = [tips EXCEPT !.tipOver = m, !.visible[m] = TRUE]
    /\ UNCHANGED << loc, rt, drag, env, phase, localStorage, zipLoader,
                    annotations, fileLoad, currentSlideIndex, pendingLoads,
                    requested, nav, display, dom, build, chips, isEditMode, clock,
                    editor, creates >>

\* mouseleave on the tooltip the pointer is over
tooltipMouseLeave ==
    /\ tips.tipOver # "none"
    /\ tips' = [tips EXCEPT !.tipOver = "none",
                            !.visible[tips.tipOver] = FALSE]
    /\ UNCHANGED << loc, rt, drag, env, phase, localStorage, zipLoader,
                    annotations, fileLoad, currentSlideIndex, pendingLoads,
                    requested, nav, display, dom, build, chips, isEditMode, clock,
                    editor, creates >>

\* a click, in edit mode, on the indicator of element n: the
\* openAnnotationEditor event reaches the document listener of both
\* managers, and each opens its own editor for the element
IndicatorClick(n) ==
    /\ isEditMode
    /\ display = "svg"
    /\ UiFree
    /\ n \in dom.annotated
    /\ clock < MaxClock
    /\ clock' = clock + 1
    /\ editor' = [open |-> TRUE, target |-> n, cb |-> "list",
                  build |-> build, tdom |-> dom, content |-> "", chip |-> 0]
    /\ tips' = [tips EXCEPT !.ed = [open |-> TRUE, target |-> n,
                                    build |-> build, tdom |-> dom]]
    /\ UNCHANGED << loc, rt, drag, env, phase, localStorage, zipLoader,
                    annotations, fileLoad, currentSlideIndex, pendingLoads,
                    requested, nav, display, dom, build, chips, isEditMode,
                    creates >>

\* the element the replaced manager's editor was opened for is still in
\* the svg on display
CtorAttached == tips.ed.build = build /\ display = "svg"

\* createAnnotation(content, element) of the replaced manager
CtorCreated ==
    createAnnotation(
        [coll |-> annotations["ctor"], dom |-> dom, storage |-> localStorage,
         chips |-> chips],
        "session", tips.ed.target, CtorAttached,
        IF CtorAttached THEN dom ELSE tips.ed.tdom, tips.ed.build,
        currentSlideIndex, clock, isEditMode)

\* Save in the editor of the replaced manager: its default callback creates
\* a note in its own collection and registers the element with its own
\* TooltipManager
CtorEditorSave ==
    /\ tips.ed.open
    /\ annotations' = [annotations EXCEPT !["ctor"] = CtorCreated.coll]
    /\ dom' = CtorCreated.dom
    /\ localStorage' = CtorCreated.storage
    /\ chips' = CtorCreated.chips
    /\ tips' = [tips EXCEPT
                  !.ed = NoCtorEditor,
                  !.reg = IF CtorAttached THEN @ \cup {tips.ed.target} ELSE @]
    /\ UNCHANGED << loc, rt, drag, env, phase, zipLoader, fileLoad,
                    currentSlideIndex, pendingLoads, requested, nav, display, build,
                    isEditMode, clock, editor, creates >>

\* Cancel in the editor of the replaced manager
CtorEditorCancel ==
    /\ tips.ed.open
    /\ tips' = [tips EXCEPT !.ed = NoCtorEditor]
    /\ UNCHANGED << loc, rt, drag, env, phase, localStorage, zipLoader,
                    annotations, fileLoad, currentSlideIndex, pendingLoads,
                    requested, nav, display, dom, build, chips, isEditMode, clock,
                    editor, creates >>

NextTooltip ==
    \/ UiFree /\ ToggleEditMode
    \/ \E n \in StaticNodes(dom.doc) : IndicatorClick(n)
    \/ EditorSave
    \/ EditorCancel
    \/ CtorEditorSave
    \/ CtorEditorCancel
    \/ \E n \in StaticNodes(dom.doc) : handleMouseEnter(n)
    \/ handleMouseLeave
    \/ \E m \in Mgrs : tooltipMouseEnter(m)
    \/ tooltipMouseLeave
    \/ \E m \in Mgrs : hideAfterGrace(m)

SpecTooltip == InitDrag /\ [][NextTooltip]_vars

\* C26: at most one annotation tooltip is visible.
C26_OneTooltip == Cardinality({m \in Mgrs : tips.visible[m]}) <= 1

\* C32: re-editing an existing note, through its chip or through its
\* element's indicator in edit mode, leaves the number of records of the
\* slide's sequence unchanged: a Save in the editor the indicator opened
\* adds no record.
C32_ReeditKeepsCount ==
    [][EditorSave =>
          Len(SeqOf(annotations'["main"], currentSlideIndex))
              = Len(SeqOf(annotations["main"], currentSlideIndex))]_vars

\* C34: one annotation store: an 'openAnnotationEditor' event opens one
\* editor, never the editor of the replaced manager next to the editor of
\* the manager the application renders from, and the replaced manager never
\* writes the durable cache.
C34_SingleStore ==
    /\ [](~(editor.open /\ tips.ed.open))
    /\ [][CtorEditorSave => localStorage' = localStorage]_vars

\* C38: outside edit mode, while the pointer rests on an element registered
\* with the TooltipManager, the tooltip is visible, also when a hide timeout
\* started by an earlier mouseleave is still pending or runs.
C38_StaysVisible ==
    (~isEditMode /\ tips.el # NoElement /\ tips.el \in Registered("main"))
    => tips.visible["main"]

\* setTimeout runs its callback: a pending hide timeout does expire
SpecTooltipFair ==
    SpecTooltip /\ \A m \in Mgrs : WF_vars(hideAfterGrace(m))

\* C27: once the pointer has left a registered element and the hide timeout
\* of a tooltip is pending, the tooltip comes to be hidden or the pointer is
\* over it; while the pointer is over a tooltip the tooltip is visible; and
\* when the pointer leaves the tooltip it is hidden.
C27_GraceDelay ==
    /\ \A m \in Mgrs :
          (tips.timers[m] > 0) ~> (~tips.visible[m] \/ tips.tipOver = m)
    /\ [](\A m \in Mgrs : tips.tipOver = m => tips.visible[m])
    /\ [][tooltipMouseLeave => ~tips'.visible[tips.tipOver]]_vars

\* the pointer went from the element to its tooltip, the hide timeout has
\* run and the tooltip is still visible
C27_Witness ==
    /\ tips.tipOver = "main"
    /\ tips.visible["main"]
    /\ tips.timers["main"] = 0

\* ------------------------------------------------------------------------
\* SpecQuota: the application with a localStorage that takes no write
\* ------------------------------------------------------------------------

InitQuota ==
    PageOpened(EnvsOver(PlainTexts(ZipColl), PlainTexts(FileColl)), {FullText})

SpecQuota == InitQuota /\ [][Next]_vars

\* C18: with a localStorage whose setItem throws, the note the user made in
\* the session stays in the collection of the manager, which is what
\* Download Annotations exports.
C18_MemoryAuthoritative ==
    creates > 0 =>
        SomeRecord(annotations["main"],
                   LAMBDA r : r.type = "annotation" /\ r.text = "session")

\* ------------------------------------------------------------------------
\* SpecShapes: opening the page over sources whose text may also parse to
\* something that is not a collection
\* ------------------------------------------------------------------------

InitShapes ==
    PageOpened(EnvsOver(SourceTexts(ZipColl) \cup {ArrayText},
                        SourceTexts(FileColl) \cup {ArrayText}),
               SourceTexts(CacheColl) \cup {ArrayText})

SpecShapes == InitShapes /\ [][NextStartup]_vars

\* a source that is there but does not hold a collection: its text does not
\* parse, or parses to null or to an array
Malformed(text) == text.t \in {"garbage", "null", "array"}

\* what the durable cache gives: its collection, none when it is malformed
CacheOrEmpty ==
    IF localStorage.t = "json" THEN ContentOf(localStorage)
    ELSE EmptyCollection

\* C19: a malformed annotation file in the zip is discarded and the
\* manager is constructed over the cache; a malformed local file is
\* discarded and the initial load settles on the cache; a malformed cache
\* gives the empty collection.
C19_MalformedDiscarded ==
    [][/\ (ZipLoaded /\ Malformed(env.zipAnn)) =>
              annotations'["main"] = CacheOrEmpty
       /\ (FileLoadSettles("main") /\ Malformed(env.file)) =>
              annotations'["main"] = CacheOrEmpty]_vars

\* ------------------------------------------------------------------------
\* SpecStartupFair: SpecStartup when the promise of downloadAndExtract
\* settles, the 2000 ms timer fires and initializeApp runs to its end
\* ------------------------------------------------------------------------

SpecStartupFair ==
    /\ SpecStartup
    /\ WF_vars(ZipFailed)
    /\ WF_vars(ErrorTimer)
    /\ WF_vars(LoadFirstSlide)

\* C20: a page opened with a slidesZipUrl whose zip cannot be downloaded or
\* extracted comes to show the error message in the slide area, and from
\* there comes to be initialised without a ZipLoader, the load of the local
\* annotation file started and slide 1 requested from the slides folder.
C20_FailedBundleRecovers ==
    /\ (phase = "loading" /\ env.url /\ ~env.zipOk) ~>
           (phase = "error" /\ display = "error")
    /\ (phase = "error") ~>
           (/\ phase = "ready"
            /\ ~zipLoader.present
            /\ fileLoad["main"] # "none"
            /\ 1 \in pendingLoads)

\* the zip failed, the error was shown, and the application is initialised
\* without it: slide 1 is on its way from the slides folder
C20_Witness ==
    /\ env.url /\ ~env.zipOk
    /\ phase = "ready"
    /\ ~zipLoader.present
    /\ fileLoad["main"] # "none"
    /\ 1 \in pendingLoads

\* ------------------------------------------------------------------------
\* SpecUpload: a zip of slides is uploaded through the admin controls
\* ------------------------------------------------------------------------

\* handleZipUpload(e): the loading message replaces the slide and the chips
\* in it; a zip that cannot be read or holds no slide leaves an error
\* message there; otherwise the new ZipLoader is installed, its collection
\* taken if it has one, and slide 1 loaded from the zip
handleZipUpload(zipAnn, ok) ==
    /\ phase = "ready"
    /\ ~editor.open
    /\ IF ok
       THEN /\ build < MaxBuilds
            /\ zipLoader' = ProcessZipContents(zipAnn)
            /\ SlideShown(1, IF zipLoader'.annKind # "null"
                             THEN zipLoader'.annotations
                             ELSE annotations["main"])
            /\ UNCHANGED pendingLoads
            /\ requested' = 1
            /\ nav' = nav
            /\ tips' = TipsAfterRebuild(tips)
       ELSE /\ display' = "error"
            /\ dom' = NoDom
            /\ chips' = <<>>
            /\ UNCHANGED << localStorage, zipLoader, annotations,
                            currentSlideIndex, pendingLoads, requested, nav, tips, build >>
    /\ UNCHANGED << loc, rt, drag, env, phase, fileLoad, isEditMode, clock,
                    editor, creates >>

\* the page is opened with slides whose zip, if any, has no annotation
\* file, next to a local file and a cache that may hold records
InitUpload ==
    PageOpened(EnvsOver({AbsentText}, PlainTexts(FileColl)),
               PlainTexts(CacheColl))

NextUpload ==
    \/ NextStartup
    \/ ToggleEditMode
    \/ \E zipAnn \in SourceTexts(ZipColl), ok \in BOOLEAN :
          handleZipUpload(zipAnn, ok)

SpecUpload == InitUpload /\ [][NextUpload]_vars

\* C16: after the upload of a zip of slides that handleZipUpload accepted,
\* the collection in use holds no record of the slides shown before: every
\* record it holds comes from the annotation file of the uploaded zip.
C16_RebuiltOnUpload ==
    [][(\E zipAnn \in SourceTexts(ZipColl) : handleZipUpload(zipAnn, TRUE)) =>
          ~SomeRecord(annotations'["main"], LAMBDA r : ~FromZip(r))]_vars

\* ------------------------------------------------------------------------
\* SpecViewer: the controls of the SlideViewer: previous / next, fetches
\* that succeed or fail, the Edit Mode button, uploads of a zip whose slide
\* numbers may have gaps
\* ------------------------------------------------------------------------

\* the slide numbers a zip can hold
ZipSlideSets == (SUBSET Slides) \ {{}}

\* ZipLoader.getSlide(index) is truthy
getSlide(zl, nv, index) == zl.present /\ index \in nv.slides

\* ZipLoader.getTotalSlides()
getTotalSlides(nv) == Cardinality(nv.slides)

\* AdminController.setupSvgElementHandlers()
setupSvgElementHandlers(nv, hasSvg) ==
    IF hasSvg THEN [nv EXCEPT !.listeners = @ + 1] ELSE nv

\* the end of loadSlide: the button states, then the afterSlideLoad handler
\* of the AdminController
ControlsAfterLoad(nv, index, edit) ==
    setupSvgElementHandlers(
        [nv EXCEPT !.prevDisabled = (index = 1),
                   !.nextDisabled = (index = nv.totalSlides)],
        edit)

\* SlideViewer.loadSlide(index) with the controls nv; cleared: the caller
\* has replaced the content of the slide display by a message
ViewerLoadSlide(index, nv, cleared) ==
    LET saved == IF isEditMode
                 THEN saveAllAnnotationPositions(annotations["main"],
                          currentSlideIndex, IF cleared THEN <<>> ELSE chips)
                 ELSE annotations["main"]
    IN  IF getSlide(zipLoader', nv, index)
        THEN /\ build < MaxLoads
             /\ SlideShown(index, saved)
             /\ UNCHANGED pendingLoads
             /\ requested' = index
             /\ tips' = TipsAfterRebuild(tips)
             /\ nav' = ControlsAfterLoad(
                          [nv EXCEPT !.totalSlides = getTotalSlides(nv)],
                          index, isEditMode)
        ELSE /\ pendingLoads' = pendingLoads \cup {index}
             /\ requested' = index
             /\ tips' = IF cleared THEN TipsAfterRebuild(tips) ELSE tips
             /\ annotations' = [annotations EXCEPT !["main"] = saved]
             /\ display' = IF cleared THEN "blank" ELSE display
             /\ dom' = IF cleared THEN NoDom ELSE dom
             /\ chips' = IF cleared THEN <<>> ELSE chips
             /\ nav' = nv
             /\ UNCHANGED << localStorage, build, currentSlideIndex >>

\* the previous and the next button, ArrowLeft and ArrowRight
PreviousNext(index) ==
    /\ phase = "ready"
    /\ ~editor.open
    /\ nav.listeners < MaxListeners
    /\ \/ index = currentSlideIndex - 1 /\ currentSlideIndex > 1
       \/ index = currentSlideIndex + 1 /\ currentSlideIndex < nav.totalSlides
    /\ UNCHANGED zipLoader
    /\ ViewerLoadSlide(index, nav, FALSE)
    /\ UNCHANGED << loc, rt, drag, env, phase, fileLoad, isEditMode, clock,
                    editor, creates >>

\* the fetch of slides/Slide<index>.SVG answers with the slide
ViewerFetched(index) ==
    /\ index \in pendingLoads
    /\ build < MaxLoads
    /\ nav.listeners < MaxListeners
    /\ pendingLoads' = pendingLoads \ {index}
    /\ SlideShown(index, annotations["main"])
    /\ tips' = TipsAfterRebuild(tips)
    /\ nav' = ControlsAfterLoad(nav, index, isEditMode)
    /\ UNCHANGED << loc, rt, drag, env, phase, zipLoader, fileLoad, isEditMode,
                    clock, editor, creates, requested >>

\* the Edit Mode button, with the listener setupSvgElementHandlers adds
ViewerToggleEditMode ==
    /\ phase = "ready"
    /\ ~editor.open
    /\ nav.listeners < MaxListeners
    /\ isEditMode' = ~isEditMode
    /\ StoreWritten(IF ~isEditMode
                    THEN enterEditMode(StoreState, currentSlideIndex,
                                       display = "svg", build)
                    ELSE exitEditMode(StoreState, currentSlideIndex,
                                      display = "svg", build))
    /\ nav' = IF ~isEditMode
              THEN setupSvgElementHandlers(nav, display = "svg")
              ELSE nav
    /\ UNCHANGED << loc, rt, drag, env, phase, zipLoader, fileLoad,
                    currentSlideIndex, pendingLoads, requested, tips, display,
                    build, clock, editor, creates >>

\* handleZipUpload(e) for a zip without annotation file that holds the
\* slides numbered `slides`
ViewerZipUpload(slides) ==
    /\ phase = "ready"
    /\ ~editor.open
    /\ nav.listeners < MaxListeners
    /\ zipLoader' = ProcessZipContents(AbsentText)
    /\ ViewerLoadSlide(1, [nav EXCEPT !.slides = slides,
                                      !.totalSlides = Cardinality(slides)],
                       TRUE)
    /\ UNCHANGED << loc, rt, drag, env, phase, fileLoad, isEditMode, clock,
                    editor, creates >>

\* the page was opened without zip and without annotations, slide 1 was
\* fetched and shown
InitViewer ==
    /\ loc = LocIdle
    /\ rt = RtIdle
    /\ drag = DragIdle
    /\ env = [url |-> FALSE, zipOk |-> FALSE, zipAnn |-> AbsentText,
              file |-> AbsentText]
    /\ phase = "ready"
    /\ localStorage = AbsentText
    /\ zipLoader = NoZipLoader
    /\ annotations = [m \in Mgrs |-> EmptyCollection]
    /\ fileLoad = [m \in Mgrs |-> "settled"]
    /\ currentSlideIndex = 1
    /\ pendingLoads = {}
    /\ requested = 1
    /\ nav = ControlsAfterLoad(NavIdle, 1, FALSE)
    /\ tips = TipsIdle
    /\ display = "svg"
    /\ dom = FreshDom(1)
    /\ build = 1
    /\ chips = <<>>
    /\ isEditMode = FALSE
    /\ clock = 0
    /\ editor = NoEditor
    /\ creates = 0

NextViewer ==
    \/ \E index \in 0..(NumSlides + 1) : PreviousNext(index)
    \/ \E index \in Slides : ViewerFetched(index)
    \/ \E index \in Slides : SlideFetchFailed(index)
    \/ ViewerToggleEditMode
    \/ \E slides \in ZipSlideSets : ViewerZipUpload(slides)

SpecViewer == InitViewer /\ [][NextViewer]_vars

\* C35: after any sequence of previous / next, load failures and zip
\* uploads the current slide number lies in 1..totalSlides, and a successful
\* load leaves the previous button disabled exactly on slide 1 and the next
\* button exactly on the last slide.
C35_NavigationBounds ==
    /\ [](currentSlideIndex \in 1..nav.totalSlides)
    /\ [][build' # build =>
            /\ nav'.prevDisabled = (currentSlideIndex' = 1)
            /\ nav'.nextDisabled = (currentSlideIndex' = nav'.totalSlides)]_vars

\* C36: with a zip loaded, loadSlide starts no fetch from the local slides
\* folder for a slide number in 1..totalSlides.
C36_BundleOnly ==
    [][zipLoader'.present =>
          (pendingLoads' \ pendingLoads) \cap (1..nav'.totalSlides) = {}]_vars

\* C37: in edit mode a click on the slide display runs handleContainerClick
\* once: the display carries one click listener.
C37_OneClickListener ==
    (isEditMode /\ display = "svg") => nav.listeners = 1

\* a step in which a fetch in flight ends without a slide being shown
FetchFails ==
    /\ pendingLoads' # pendingLoads
    /\ pendingLoads' \subseteq pendingLoads
    /\ build' = build

\* C39: when the load of a slide fails, currentSlideIndex keeps its value,
\* the display holds the error message and no svg, no overlay is applied
\* (no chip, no registered element, no indicator, no click listener added,
\* the buttons as they were), the collections and the cache are untouched;
\* and a previous / next request made while the error message is on display
\* is served: its slide is shown or its fetch is in flight.
C39_LoadFailure ==
    /\ [][FetchFails =>
            /\ currentSlideIndex' = currentSlideIndex
            /\ display' = "error"
            /\ dom' = NoDom
            /\ chips' = <<>>
            /\ nav' = nav
            /\ annotations' = annotations
            /\ localStorage' = localStorage]_vars
    /\ [][(display = "error" /\ requested' # requested) =>
            \/ requested' \in pendingLoads'
            \/ display' = "svg" /\ currentSlideIndex' = requested']_vars

\* the load of slide 2 failed while slide 1 was current, and was requested
\* again afterwards
C39_Witness ==
    /\ display = "error"
    /\ currentSlideIndex = 1
    /\ requested = 2
    /\ pendingLoads = {2}

====
